---- MODULE Spec2Model ----
(***************************************************************************)
(* A model of the RouCraft voxel engine: the terrain generator, the client *)
(* chunk cache (ChunkManager), the meshing worker pool (WorkerPool) and    *)
(* the worker message handler, with the room seed hand-shake of the server.*)
(*                                                                         *)
(* Numbers with a fractional part in the source are kept as integers in    *)
(* thousandths (0.6 is 600, 0.003 is 3).  A block grid (a Uint8Array of    *)
(* 32768 bytes) is kept as the generator output it was created from plus   *)
(* the bytes that were overwritten since; Byte reads a byte of it.         *)
(***************************************************************************)
EXTENDS Integers, Sequences, FiniteSets, TLC

(***************************************************************************)
(* Program constants.                                                      *)
(***************************************************************************)
CHUNK_SIZE == 32
CHUNK_HEIGHT == 32
WORLD_HEIGHT == 256
BASE_HEIGHT == 64
AMPLITUDE == 30
WATER_LEVEL == 60
CAVE_THRESHOLD == 600
CAVE_MAX_Y == 50
ENGINE_SEED == 12345

(***************************************************************************)
(* Bounds of the model.  RENDER_DISTANCE (4 in the source) and             *)
(* VERTICAL_CHUNKS (8 in the source) are scaled down: they size the cuboid *)
(* of chunks one update loads.                                             *)
(***************************************************************************)
RENDER_DISTANCE == 0
VERTICAL_CHUNKS == 2
MaxCores == 2
MaxUpdates == 3
MaxEdits == 1
MaxErrors == 1
MaxJobs == 3
MaxPoolCores == 5
MaxCalls == 3

NULL == [null |-> TRUE]

Air == 0
Grass == 1
Dirt == 2
Stone == 3
Sand == 4
Water == 5
Wood == 6
Leaves == 7
Planks == 9
Glass == 10
Coal == 12
Iron == 13
Gold == 14
Flower == 15

Min(a, b) == IF a < b THEN a ELSE b
Max(a, b) == IF a > b THEN a ELSE b

(***************************************************************************)
(* shared/ChunkConstants.ts                                                *)
(***************************************************************************)
blockIndex(x, y, z) == x + z * CHUNK_SIZE + y * CHUNK_SIZE * CHUNK_SIZE

worldToChunk(wx, wy, wz) ==
  [cx |-> wx \div CHUNK_SIZE, cy |-> wy \div CHUNK_HEIGHT, cz |-> wz \div CHUNK_SIZE,
   lx |-> wx % CHUNK_SIZE, ly |-> wy % CHUNK_HEIGHT, lz |-> wz % CHUNK_SIZE]

chunkKey(cx, cy, cz) == <<cx, cy, cz>>

(***************************************************************************)
(* The seeded libraries (alea, simplex-noise) are not part of the          *)
(* repository.  What the generator relies on is kept: Alea(seed) is a      *)
(* generator whose stream is fixed by the seed; createNoise2D/3D draw from *)
(* it once, when the noise function is built, and the noise function is a  *)
(* pure function of the table built then and of its arguments, with values *)
(* in [-1, 1] (here -1000 .. 1000).                                        *)
(***************************************************************************)
Alea(seed) == (seed * 7 + 3) % 1009

AleaNext(rng) == (rng * 31 + 17) % 1009

NoiseValue(table, a, b, c) == ((table * 37 + a * 101 + b * 57 + c * 13) % 2001) - 1000

(***************************************************************************)
(* TerrainGenerator.  octave i samples at frequency OCTAVES[i].freq / 100  *)
(* with amplitude OCTAVES[i].amp / 8.                                      *)
(***************************************************************************)
OCTAVES == << [freq |-> 1, amp |-> 8], [freq |-> 2, amp |-> 4],
              [freq |-> 4, amp |-> 2], [freq |-> 8, amp |-> 1] >>

RECURSIVE SumOctaves(_, _, _, _)
SumOctaves(noise2D, wx, wz, i) ==
  IF i > Len(OCTAVES) THEN [value |-> 0, totalAmp |-> 0]
  ELSE LET rest == SumOctaves(noise2D, wx, wz, i + 1)
       IN  [value |-> NoiseValue(noise2D, wx * OCTAVES[i].freq, wz * OCTAVES[i].freq, i)
                        * OCTAVES[i].amp + rest.value,
            totalAmp |-> OCTAVES[i].amp + rest.totalAmp]

sampleHeight(noise2D, wx, wz) ==
  LET s == SumOctaves(noise2D, wx, wz, 1)
  IN  BASE_HEIGHT + ((s.value * AMPLITUDE) \div (s.totalAmp * 1000))

\* The integer-mix hash, as a value in thousandths of [0, 1).
blockHash(x, y, z, seed) ==
  (((((seed % 1000) * 61 + x * 393 + 589) % 1000) * 7 + y * 263 + 967) * 3 + z * 177 + 187) % 1000

\* new TerrainGenerator(seed): the three noise functions are built, in this
\* order, from one Alea(seed) stream.
NewTerrainGenerator(seed) ==
  LET rng0 == Alea(seed)
      rng1 == AleaNext(rng0)
      rng2 == AleaNext(rng1)
  IN  [seed |-> seed, noise2D |-> rng0, noise3D |-> rng1, treeNoise |-> rng2]


(***************************************************************************)
(* generateChunk, block by block.  GenBlock(g, key, cell) is the byte the  *)
(* array returned by g.generateChunk(cx, cy, cz) holds at the local cell   *)
(* <<x, y, z>>: pass 1 (terrain, caves, ores), pass 2 (flowers) and pass 3 *)
(* (trees, in the scan order of the source: x outer, z inner).             *)
(***************************************************************************)
\* (a pass 1 that tests the ores in the order Coal, Iron, Gold)
Pass1BlockCoalFirst(g, wx, wy, wz, height) ==
  LET terrain == IF wy = height THEN (IF height <= 62 THEN Sand ELSE Grass)
                 ELSE IF wy >= height - 3 /\ wy < height THEN Dirt
                 ELSE IF wy < height - 3 THEN Stone
                 ELSE IF wy <= WATER_LEVEL /\ wy > height THEN Water
                 ELSE Air
      carved == IF /\ terrain = Stone
                   /\ wy < CAVE_MAX_Y
                   /\ wy > 1
                   /\ NoiseValue(g.noise3D, wx * 5, wy * 5, wz * 5) > CAVE_THRESHOLD
                THEN Air ELSE terrain
      rnd == blockHash(wx, wy, wz, g.seed)
  IN  IF carved # Stone THEN carved
      ELSE IF wy < 60 /\ rnd < 15 THEN Coal
      ELSE IF wy < 40 /\ rnd < 8 THEN Iron
      ELSE IF wy < 20 /\ rnd < 3 THEN Gold
      ELSE Stone

Pass1Block(g, wx, wy, wz, height) ==
  LET terrain == IF wy = height THEN (IF height <= 62 THEN Sand ELSE Grass)
                 ELSE IF wy >= height - 3 /\ wy < height THEN Dirt
                 ELSE IF wy < height - 3 THEN Stone
                 ELSE IF wy <= WATER_LEVEL /\ wy > height THEN Water
                 ELSE Air
      carved == IF /\ terrain = Stone
                   /\ wy < CAVE_MAX_Y
                   /\ wy > 1
                   /\ NoiseValue(g.noise3D, wx * 5, wy * 5, wz * 5) > CAVE_THRESHOLD
                THEN Air ELSE terrain
      rnd == blockHash(wx, wy, wz, g.seed)
  IN  IF carved # Stone THEN carved
      ELSE IF wy < 20 /\ rnd < 3 THEN Gold
      ELSE IF wy < 40 /\ rnd < 8 THEN Iron
      ELSE IF wy < 60 /\ rnd < 15 THEN Coal
      ELSE Stone

InChunkY(ly) == ly >= 0 /\ ly < CHUNK_HEIGHT

\* The byte at local <<x, y, z>> once pass 2 has run.
Pass2Block(g, cx, cy, cz, x, y, z) ==
  LET wx == cx * CHUNK_SIZE + x
      wz == cz * CHUNK_SIZE + z
      chunkWorldY == cy * CHUNK_HEIGHT
      height == sampleHeight(g.noise2D, wx, wz)
      flowerY == height + 1
      ly == flowerY - chunkWorldY
      surfaceLy == height - chunkWorldY
  IN  IF /\ y = ly
         /\ InChunkY(ly)
         /\ height > WATER_LEVEL
         /\ InChunkY(surfaceLy)
         /\ Pass1Block(g, wx, height, wz, height) = Grass
         /\ blockHash(wx, flowerY, wz, g.seed + 7) < 20
      THEN Flower
      ELSE Pass1Block(g, wx, chunkWorldY + y, wz, height)

\* Does pass 3 place a tree on the column <<x, z>> of this chunk?
TreeAt(g, cx, cy, cz, x, z) ==
  LET wx == cx * CHUNK_SIZE + x
      wz == cz * CHUNK_SIZE + z
      height == sampleHeight(g.noise2D, wx, wz)
      surfaceLy == height - cy * CHUNK_HEIGHT
  IN  /\ height > WATER_LEVEL
      /\ InChunkY(surfaceLy)
      /\ Pass1Block(g, wx, height, wz, height) = Grass
      /\ blockHash(wx, 0, wz, g.seed + 42) <= 16
      /\ ~(x < 2 \/ x >= CHUNK_SIZE - 2 \/ z < 2 \/ z >= CHUNK_SIZE - 2)

\* What the tree on column <<x, z>> does to the cell <<tx, ty, tz>> holding v.
TreeEffect(g, cx, cy, cz, x, z, tx, ty, tz, v) ==
  LET wx == cx * CHUNK_SIZE + x
      wz == cz * CHUNK_SIZE + z
      chunkWorldY == cy * CHUNK_HEIGHT
      height == sampleHeight(g.noise2D, wx, wz)
      treeRnd == blockHash(wx, 0, wz, g.seed + 42)
      trunkHeight == 4 + (treeRnd % 3)
      canopyRadius == 2
      leafCenterY == height + trunkHeight
      dx == tx - x
      dz == tz - z
      dy == ty + chunkWorldY - leafCenterY
      onColumn == tx = x /\ tz = z
      v1 == IF onColumn /\ ty = height + 1 - chunkWorldY /\ v = Flower THEN Air ELSE v
      v2 == IF onColumn /\ \E t \in 1..trunkHeight : height + t - chunkWorldY = ty
            THEN Wood ELSE v1
      inCanopy == /\ dx >= -canopyRadius /\ dx <= canopyRadius
                  /\ dz >= -canopyRadius /\ dz <= canopyRadius
                  /\ dy >= -1 /\ dy <= canopyRadius
                  /\ 4 * (dx * dx + dy * dy + dz * dz) <= (2 * canopyRadius + 1) * (2 * canopyRadius + 1)
  IN  IF inCanopy /\ v2 = Air THEN Leaves ELSE v2

\* Pass 3 over the columns that can reach <<tx, ty, tz>>, in scan order.
RECURSIVE Pass3From(_, _, _, _, _, _, _, _, _)
Pass3From(g, cx, cy, cz, tx, ty, tz, i, v) ==
  IF i >= 25 THEN v
  ELSE LET x == tx - 2 + (i \div 5)
           z == tz - 2 + (i % 5)
           hit == /\ x >= 0 /\ x < CHUNK_SIZE /\ z >= 0 /\ z < CHUNK_SIZE
                  /\ TreeAt(g, cx, cy, cz, x, z)
       IN  Pass3From(g, cx, cy, cz, tx, ty, tz, i + 1,
                     IF hit THEN TreeEffect(g, cx, cy, cz, x, z, tx, ty, tz, v) ELSE v)

GenBlock(g, key, cell) ==
  Pass3From(g, key[1], key[2], key[3], cell[1], cell[2], cell[3], 0,
            Pass2Block(g, key[1], key[2], key[3], cell[1], cell[2], cell[3]))

(***************************************************************************)
(* A block grid: the generator output it started as (gen, key) and the     *)
(* bytes written since (ov, kept only where they differ from the generated *)
(* byte, so that two grids with the same record hold the same bytes).      *)
(***************************************************************************)
NoOverlay == [c \in {} |-> 0]

NewGrid(g, key) == [gen |-> g, key |-> key, ov |-> NoOverlay]

\* A grid whose first bytes the model computes: the array generateChunk
\* returned for integer chunk coordinates (gen, key), or an array filled with
\* one block type (fill).
Modelled(grid) == "key" \in DOMAIN grid \/ "fill" \in DOMAIN grid

\* The byte the array was created with: the generated byte or the fill, or 0
\* from index zeroFrom on for an array that new Uint8Array(n) zero-filled and
\* that was filled only up to there.
BaseByte(grid, cell) ==
  IF "zeroFrom" \in DOMAIN grid /\ blockIndex(cell[1], cell[2], cell[3]) >= grid.zeroFrom
  THEN 0
  ELSE IF "fill" \in DOMAIN grid THEN grid.fill
  ELSE GenBlock(grid.gen, grid.key, cell)

Byte(grid, cell) ==
  IF cell \in DOMAIN grid.ov THEN grid.ov[cell] ELSE BaseByte(grid, cell)

WriteByte(grid, cell, type) ==
  LET keep == (DOMAIN grid.ov) \ {cell}
      dom == IF Modelled(grid) /\ BaseByte(grid, cell) = type THEN keep
             ELSE keep \cup {cell}
  IN  [grid EXCEPT !.ov = [c \in dom |-> IF c = cell THEN type ELSE grid.ov[c]]]

\* (a generator that drew from its random stream on every call)
generateChunkDrawing(g, cx, cy, cz) ==
  [data |-> NewGrid(g, chunkKey(cx, cy, cz)),
   gen |-> [g EXCEPT !.noise2D = AleaNext(@)]]

\* generateChunk(cx, cy, cz): a new array; no field of the generator is assigned.
generateChunk(g, cx, cy, cz) ==
  [data |-> NewGrid(g, chunkKey(cx, cy, cz)), gen |-> g]


(***************************************************************************)
(* State.                                                                  *)
(*   heap     every Uint8Array/ArrayBuffer alive, by reference: its bytes  *)
(*            and the thread that can read it ("main", or "worker" once    *)
(*            transferred: the main thread's handle is then detached)      *)
(* ChunkManager:                                                           *)
(*   engine, terrainGenerator, chunks, scene, playerX, playerZ             *)
(* WorkerPool:                                                             *)
(*   workers (busy flag, and the message the worker thread is working on), *)
(*   queue, nextId, pendingResolves                                        *)
(*   promise   the state of the promise meshChunk returned, per job id     *)
(*   awaiting  the continuation of createChunkMeshAsync suspended at its   *)
(*             await, per job id, with what its closure captured           *)
(* Server: room (the Room created by handleCreateRoom), net (messages sent *)
(*   to the client and not delivered yet)                                  *)
(* Generator harness: gens, out (two TerrainGenerator instances and the    *)
(*   arrays their generateChunk calls returned)                            *)
(* History: event (the handler that ran last), handed (job ids in the      *)
(*   order they were handed to a worker), late (a job was submitted after  *)
(*   a completion), hung (workers that never answer), and the counters     *)
(*   that bound the model.                                                 *)
(***************************************************************************)
VARIABLES heap, engine, terrainGenerator, chunks, scene, playerX, playerZ,
          workers, queue, nextId, pendingResolves, promise, awaiting,
          room, net, gens, out, event, handed, late, hung,
          updates, edits, errors, worldManager, file, players, meshIn

clientVars == <<engine, terrainGenerator, chunks, scene, playerX, playerZ, awaiting,
                updates, edits>>
poolVars == <<heap, workers, queue, nextId, pendingResolves, promise, handed, late,
              hung, errors>>
netVars == <<room, net>>
genVars == <<gens, out>>
harnessVars == <<worldManager, file, players, meshIn>>
vars == <<heap, engine, terrainGenerator, chunks, scene, playerX, playerZ,
          workers, queue, nextId, pendingResolves, promise, awaiting,
          room, net, gens, out, event, handed, late, hung, updates, edits, errors,
          worldManager, file, players, meshIn>>

NeighborNames == {"px", "nx", "py", "ny", "pz", "nz"}
NoNeighbors == [n \in NeighborNames |-> NULL]

GenRef(n) == [ref |-> "gen", id |-> n, slot |-> ""]
CopyRef(id, slot) == [ref |-> "copy", id |-> id, slot |-> slot]

Restrict(f, dom) == [x \in (DOMAIN f) \cap dom |-> f[x]]

(***************************************************************************)
(* WorkerPool.  The operators work on a record p of the pool's fields      *)
(* (workers, queue, pendingResolves, promise, heap, handed) and return the *)
(* record after the call.                                                  *)
(***************************************************************************)
\* constructor: count = Math.min(4, Math.max(1, (hardwareConcurrency || 4) - 1))
WorkerCount(hardwareConcurrency) ==
  Min(4, Max(1, (IF hardwareConcurrency = 0 THEN 4 ELSE hardwareConcurrency) - 1))

NewWorkers(hardwareConcurrency) ==
  [i \in 1..WorkerCount(hardwareConcurrency) |-> [busy |-> FALSE, msg |-> NULL]]

\* meshChunk, lines 102-111: insert before the first queued job of lower priority.
RECURSIVE InsertAt(_, _, _)
InsertAt(q, job, i) ==
  IF i > Len(q) THEN Append(q, job)
  ELSE IF job.priority > q[i].priority
       THEN SubSeq(q, 1, i - 1) \o <<job>> \o SubSeq(q, i, Len(q))
       ELSE InsertAt(q, job, i + 1)

\* (a queue that ignored priorities)
InsertLast(q, job) == Append(q, job)

\* (a queue that puts a job before the queued jobs of its own priority)
InsertBeforeEquals(q, job) ==
  LET later == {i \in 1..Len(q) : job.priority >= q[i].priority}
  IN  IF later = {} THEN Append(q, job)
      ELSE LET i == CHOOSE k \in later : \A l \in later : k <= l
           IN  SubSeq(q, 1, i - 1) \o <<job>> \o SubSeq(q, i, Len(q))

InsertByPriority(q, job) == InsertAt(q, job, 1)

\* dispatch, lines 126-142: fresh copies of the job's arrays, for worker `id`'s message.
CopySlots(job) == {"data"} \cup {n \in NeighborNames : job.neighbors[n] # NULL}

CopySource(job, slot) == IF slot = "data" THEN job.chunkData ELSE job.neighbors[slot]

\* (what dispatch would send if it passed the job's own arrays on)
SharedBuffer(job, slot) == CopySource(job, slot)

CopyBuffer(job, slot) == CopyRef(job.id, slot)

\* dispatch, one turn of its loop for worker i.  throws: postMessage throws.
\* The buffers named in the transfer list belong to the worker afterwards.
HandOff(p, i, throws) ==
  LET job == Head(p.queue)
      slots == CopySlots(job)
      buffers == {CopyBuffer(job, s) : s \in slots}
      slotOf(r) == CHOOSE s \in slots : CopyBuffer(job, s) = r
      message == [id |-> job.id,
                  chunkData |-> CopyBuffer(job, "data"),
                  neighbors |-> [n \in NeighborNames |->
                                   IF n \in slots THEN CopyBuffer(job, n) ELSE NULL],
                  cx |-> job.cx, cy |-> job.cy, cz |-> job.cz]
      transferred == [r \in (DOMAIN p.heap) \cup buffers |->
                        IF r \in buffers
                        THEN [grid |-> p.heap[CopySource(job, slotOf(r))].grid,
                              side |-> "worker"]
                        ELSE p.heap[r]]
      taken == [p EXCEPT !.queue = Tail(p.queue),
                         !.workers[i].busy = TRUE,
                         !.pendingResolves = @ \cup {job.id}]
  IN  IF throws
      THEN [taken EXCEPT !.thrown = TRUE]
      ELSE [taken EXCEPT !.heap = transferred,
                         !.workers[i].msg = message,
                         !.handed = Append(@, [id |-> job.id, priority |-> job.priority])]

RECURSIVE DispatchFrom(_, _, _)
DispatchFrom(p, i, throws) ==
  IF i > Len(p.workers) \/ p.thrown THEN p
  ELSE IF p.workers[i].busy \/ Len(p.queue) = 0
       THEN DispatchFrom(p, i + 1, throws)
       ELSE DispatchFrom(HandOff(p, i, throws), i + 1, throws)

\* (a dispatch that only ever looks at the first worker)
DispatchFirst(p, throws) ==
  IF p.workers[1].busy \/ Len(p.queue) = 0 THEN p ELSE HandOff(p, 1, throws)

dispatch(p, throws) == DispatchFrom(p, 1, throws)

\* meshChunk: the executor of the promise it returns.  An exception thrown by
\* dispatch inside the executor rejects that promise.
meshChunk(p, chunkData, neighbors, cx, cy, cz, priority, throws) ==
  LET job == [id |-> p.nextId, chunkData |-> chunkData, neighbors |-> neighbors,
              cx |-> cx, cy |-> cy, cz |-> cz, priority |-> priority]
      queued == [p EXCEPT !.nextId = @ + 1,
                          !.queue = InsertByPriority(@, job),
                          !.promise = [id \in (DOMAIN @) \cup {job.id} |->
                                         IF id = job.id THEN "pending" ELSE @[id]]]
      after == dispatch(queued, throws)
  IN  IF after.thrown
      THEN [after EXCEPT !.promise[job.id] = "rejected", !.thrown = FALSE]
      ELSE after

\* worker.onmessage, lines 53-62 (the continuation of a resolved promise runs
\* after the handler, see the actions).
onmessage(p, i, id, throws) ==
  LET resolved == IF id \in p.pendingResolves
                  THEN [p EXCEPT !.pendingResolves = @ \ {id},
                                 !.promise[id] = IF @ = "pending" THEN "resolved" ELSE @]
                  ELSE p
      idle == [resolved EXCEPT !.workers[i].busy = FALSE]
  IN  dispatch(idle, throws)

\* worker.onerror, lines 64-68.
onerror(p, i, throws) ==
  dispatch([p EXCEPT !.workers[i].busy = FALSE], throws)

(***************************************************************************)
(* The worker thread (ChunkMeshWorker.ts, self.onmessage).  It reads the   *)
(* buffers of its message only; when it posts its answer, or dies with an  *)
(* error, the message and its buffers are gone.                            *)
(***************************************************************************)
MessageBuffers(msg) ==
  {msg.chunkData} \cup {msg.neighbors[n] : n \in {m \in NeighborNames : msg.neighbors[m] # NULL}}

\* What the mesher is given: the bytes of the grid and of each neighbor grid.
MeshInput(h, data, neighbors) ==
  [data |-> h[data].grid,
   neighbors |-> [n \in NeighborNames |->
                    IF neighbors[n] = NULL THEN NULL ELSE h[neighbors[n]].grid]]

\* meshChunk / meshChunkData.  A mesh result is null when no quad was emitted;
\* whether the opaque and the water buffers hold geometry is decided by the
\* 32768 bytes of the grid, which this model does not enumerate: opaque and
\* water are inputs of the actions.
MeshOutcomes == {[opaque |-> TRUE, water |-> TRUE], [opaque |-> FALSE, water |-> FALSE]}

MeshResult(input, outcome) ==
  IF ~outcome.opaque /\ ~outcome.water THEN NULL
  ELSE [input |-> input, opaque |-> outcome.opaque, water |-> outcome.water]

WorkerResult(p, i, outcome) ==
  LET msg == p.workers[i].msg
  IN  MeshResult(MeshInput(p.heap, msg.chunkData, msg.neighbors), outcome)

\* The worker is done with its message (answer posted, or error raised).
WorkerDone(p, i) ==
  [p EXCEPT !.workers[i].msg = NULL,
            !.heap = Restrict(@, (DOMAIN @) \ MessageBuffers(p.workers[i].msg))]


(***************************************************************************)
(* ChunkManager.  The operators work on a record s of the manager's fields *)
(* (chunks, scene, awaiting, terrainGenerator, playerX, playerZ) and of    *)
(* its pool (p), and return the record after the call.                     *)
(*                                                                         *)
(* A chunk entry carries three history fields next to the fields of        *)
(* ChunkEntry: lastReq (the most recent remesh request made for it),       *)
(* meshBy (the request whose result set its mesh state last) and preEdit   *)
(* (the jobs for it that a worker held when setBlock edited it).           *)
(***************************************************************************)
Put(f, k, v) == [x \in (DOMAIN f) \cup {k} |-> IF x = k THEN v ELSE f[x]]

NoRequest == [k |-> "none"]
JobRequest(id, data) == [k |-> "job", id |-> id, data |-> data]
SyncRequest(n) == [k |-> "sync", n |-> n]

MeshObject(kind, key, by, result) ==
  [kind |-> kind, key |-> key, by |-> by, input |-> result.input]

EntryMeshes(entry) ==
  (IF entry.mesh = NULL THEN {} ELSE {entry.mesh})
    \cup (IF entry.waterMesh = NULL THEN {} ELSE {entry.waterMesh})

getNeighborData(ch, cx, cy, cz) ==
  LET dataOf(key) == IF key \in DOMAIN ch THEN ch[key].data ELSE NULL
  IN  [px |-> dataOf(chunkKey(cx + 1, cy, cz)), nx |-> dataOf(chunkKey(cx - 1, cy, cz)),
       py |-> dataOf(chunkKey(cx, cy + 1, cz)), ny |-> dataOf(chunkKey(cx, cy - 1, cz)),
       pz |-> dataOf(chunkKey(cx, cy, cz + 1)), nz |-> dataOf(chunkKey(cx, cy, cz - 1))]

chunkPriority(s, cx, cz) ==
  LET pcx == s.playerX \div CHUNK_SIZE
      pcz == s.playerZ \div CHUNK_SIZE
      dx == cx - pcx
      dz == cz - pcz
  IN  1000 - (dx * dx + dz * dz)

\* applyMeshResult(entry, result, cx, cy, cz).  `entry` is an entry object: the
\* one the map holds under key when inMap, an object the map no longer holds
\* otherwise (its fields are then out of reach, the scene is not).
applyMeshResult(s, key, inMap, result, by) ==
  LET mesh == IF result.opaque THEN MeshObject("opaque", key, by, result) ELSE NULL
      waterMesh == IF result.water THEN MeshObject("water", key, by, result) ELSE NULL
      added == (IF result.opaque THEN {mesh} ELSE {})
                 \cup (IF result.water THEN {waterMesh} ELSE {})
  IN  [s EXCEPT !.scene = @ \cup added,
                !.chunks = IF inMap
                           THEN [@ EXCEPT ![key].mesh = IF result.opaque THEN mesh ELSE @,
                                          ![key].waterMesh =
                                             IF result.water THEN waterMesh ELSE @]
                           ELSE @]

\* "Remove old meshes": both handles detached from the scene and set to null.
RemoveOldMeshes(s, key) ==
  [s EXCEPT !.scene = @ \ EntryMeshes(s.chunks[key]),
            !.chunks[key].mesh = NULL,
            !.chunks[key].waterMesh = NULL]

\* createChunkMeshSync, lines 201-227.  outcome: what meshChunk finds to draw.
createChunkMeshSync(s, key, data, cx, cy, cz, outcome, by) ==
  IF key \notin DOMAIN s.chunks THEN s
  ELSE LET cleared == RemoveOldMeshes(s, key)
           noted == [cleared EXCEPT !.chunks[key].lastReq = by,
                                    !.chunks[key].meshBy = by]
           neighbors == getNeighborData(noted.chunks, cx, cy, cz)
           meshData == MeshResult(MeshInput(noted.p.heap, data, neighbors), outcome)
       IN  IF meshData = NULL THEN noted
           ELSE applyMeshResult(noted, key, TRUE, meshData, by)

\* rebuildChunkMesh, lines 229-236.
rebuildChunkMesh(s, key, outcome, by) ==
  IF key \notin DOMAIN s.chunks THEN s
  ELSE createChunkMeshSync(s, key, s.chunks[key].data, key[1], key[2], key[3], outcome, by)

\* createChunkMeshAsync up to its await, lines 122-132.
createChunkMeshAsync(s, key, data, cx, cy, cz) ==
  IF key \notin DOMAIN s.chunks THEN s
  ELSE LET gen == s.chunks[key].generation + 1
           id == s.p.nextId
           marked == [s EXCEPT !.chunks[key].meshing = TRUE,
                               !.chunks[key].generation = gen,
                               !.chunks[key].lastReq = JobRequest(id, data)]
           neighbors == getNeighborData(marked.chunks, cx, cy, cz)
           priority == chunkPriority(marked, cx, cz)
       IN  [marked EXCEPT
              !.p = meshChunk(@, data, neighbors, cx, cy, cz, priority, FALSE),
              !.awaiting = Put(@, id, [key |-> key, data |-> data, cx |-> cx, cy |-> cy,
                                       cz |-> cz, gen |-> gen])]

\* Lines 135-136 and 157-158: the entry the continuation works on, read from
\* the map again; NULL when the result is to be dropped.
\* (a continuation that went on with the entry object it captured at the
\* start, whatever the map holds now)
CapturedEntry(ch, c) == [key |-> c.key, inMap |-> c.key \in DOMAIN ch]

CurrentEntry(ch, c) ==
  IF c.key \notin DOMAIN ch \/ ch[c.key].generation # c.gen
  THEN NULL
  ELSE [key |-> c.key, inMap |-> TRUE]

\* createChunkMeshAsync after its await resolved, lines 134-154.
AsyncResolved(s, id, result) ==
  LET c == s.awaiting[id]
      currentEntry == CurrentEntry(s.chunks, c)
      by == JobRequest(id, c.data)
      inMap == currentEntry # NULL /\ currentEntry.inMap
      settled == IF inMap
                 THEN [RemoveOldMeshes(s, c.key) EXCEPT !.chunks[c.key].meshing = FALSE,
                                                        !.chunks[c.key].meshBy = by]
                 ELSE s
  IN  IF currentEntry = NULL THEN s
      ELSE IF result = NULL THEN settled
      ELSE applyMeshResult(settled, c.key, inMap, result, by)

\* createChunkMeshAsync after its await rejected, lines 155-161.
AsyncRejected(s, id, outcome, by) ==
  LET c == s.awaiting[id]
      currentEntry == CurrentEntry(s.chunks, c)
  IN  IF currentEntry = NULL \/ ~currentEntry.inMap THEN s
      ELSE createChunkMeshSync([s EXCEPT !.chunks[c.key].meshing = FALSE],
                               c.key, c.data, c.cx, c.cy, c.cz, outcome, by)

\* The continuations of the promises a handler settled run when it returns.
Continue(s, id, result, outcome, by) ==
  IF id \notin DOMAIN s.awaiting \/ s.p.promise[id] = "pending" THEN s
  ELSE LET done == IF s.p.promise[id] = "resolved"
                   THEN AsyncResolved(s, id, result)
                   ELSE AsyncRejected(s, id, outcome, by)
       IN  [done EXCEPT !.awaiting = Restrict(@, (DOMAIN @) \ {id})]

\* loadChunk, lines 87-93.
loadChunk(s, cx, cy, cz) ==
  LET key == chunkKey(cx, cy, cz)
      generated == generateChunk(s.terrainGenerator, cx, cy, cz)
      data == GenRef(s.p.nextId)
      entry == [data |-> data, mesh |-> NULL, waterMesh |-> NULL, meshing |-> FALSE,
                generation |-> 0, lastReq |-> NoRequest, meshBy |-> NoRequest,
                preEdit |-> {}]
      registered == [s EXCEPT !.terrainGenerator = generated.gen,
                              !.p.heap = Put(@, data, [grid |-> generated.data,
                                                       side |-> "main"]),
                              !.chunks = Put(@, key, entry)]
  IN  createChunkMeshAsync(registered, key, data, cx, cy, cz)


\* update, lines 51-69: the needed keys in the order the loops visit them.
NeededCount == (2 * RENDER_DISTANCE + 1) * (2 * RENDER_DISTANCE + 1) * VERTICAL_CHUNKS

NeededKey(pcx, pcz, i) ==
  LET side == 2 * RENDER_DISTANCE + 1
      dx == (i \div (side * VERTICAL_CHUNKS)) - RENDER_DISTANCE
      dz == ((i \div VERTICAL_CHUNKS) % side) - RENDER_DISTANCE
      cy == i % VERTICAL_CHUNKS
  IN  chunkKey(pcx + dx, cy, pcz + dz)

NeededKeys(pcx, pcz) == {NeededKey(pcx, pcz, i) : i \in 0..(NeededCount - 1)}

RECURSIVE LoadFrom(_, _, _, _)
LoadFrom(s, pcx, pcz, i) ==
  IF i >= NeededCount THEN s
  ELSE LET key == NeededKey(pcx, pcz, i)
       IN  LoadFrom(IF key \in DOMAIN s.chunks THEN s
                    ELSE loadChunk(s, key[1], key[2], key[3]),
                    pcx, pcz, i + 1)

\* (an unload that deletes the entries and leaves their meshes in the scene)
UnloadEntriesOnly(s, neededKeys) ==
  [s EXCEPT !.chunks = Restrict(@, neededKeys)]

\* update, lines 71-84.
Unload(s, neededKeys) ==
  LET far == (DOMAIN s.chunks) \ neededKeys
  IN  [s EXCEPT !.scene = @ \ UNION {EntryMeshes(s.chunks[k]) : k \in far},
                !.chunks = Restrict(@, neededKeys)]

update(s, x, z) ==
  LET moved == [s EXCEPT !.playerX = x, !.playerZ = z]
      pcx == x \div CHUNK_SIZE
      pcz == z \div CHUNK_SIZE
  IN  Unload(LoadFrom(moved, pcx, pcz, 0), NeededKeys(pcx, pcz))

\* (a setBlock that rebuilds the edited chunk only)
RebuildEdited(ch, c) ==
  SelectSeq(<<[on |-> TRUE, key |-> chunkKey(c.cx, c.cy, c.cz)]>>,
            LAMBDA t : t.key \in DOMAIN ch)

\* setBlock, lines 245-261: the chunks it rebuilds, in order.
RebuildTargets(ch, c) ==
  LET all == <<[on |-> TRUE, key |-> chunkKey(c.cx, c.cy, c.cz)],
               [on |-> c.lx = 0, key |-> chunkKey(c.cx - 1, c.cy, c.cz)],
               [on |-> c.lx = CHUNK_SIZE - 1, key |-> chunkKey(c.cx + 1, c.cy, c.cz)],
               [on |-> c.ly = 0, key |-> chunkKey(c.cx, c.cy - 1, c.cz)],
               [on |-> c.ly = CHUNK_HEIGHT - 1, key |-> chunkKey(c.cx, c.cy + 1, c.cz)],
               [on |-> c.lz = 0, key |-> chunkKey(c.cx, c.cy, c.cz - 1)],
               [on |-> c.lz = CHUNK_SIZE - 1, key |-> chunkKey(c.cx, c.cy, c.cz + 1)]>>
  IN  SelectSeq(all, LAMBDA t : t.on /\ t.key \in DOMAIN ch)

RECURSIVE RebuildFrom(_, _, _, _, _)
RebuildFrom(s, targets, outcomes, by, i) ==
  IF i > Len(targets) THEN s
  ELSE RebuildFrom(rebuildChunkMesh(s, targets[i].key, outcomes[i], by),
                   targets, outcomes, by, i + 1)

\* The jobs issued for the array `data` that a worker holds.
HeldJobs(s, data) ==
  {id \in DOMAIN s.awaiting :
     /\ s.awaiting[id].data = data
     /\ \E i \in DOMAIN s.p.workers :
          s.p.workers[i].msg # NULL /\ s.p.workers[i].msg.id = id}

setBlock(s, wx, wy, wz, type, outcomes, by) ==
  LET c == worldToChunk(wx, wy, wz)
      key == chunkKey(c.cx, c.cy, c.cz)
  IN  IF key \notin DOMAIN s.chunks THEN s
      ELSE LET data == s.chunks[key].data
               written == [s EXCEPT
                  !.p.heap[data].grid = WriteByte(@, <<c.lx, c.ly, c.lz>>, type),
                  !.chunks[key].preEdit = @ \cup HeldJobs(s, data)]
           IN  RebuildFrom(written, RebuildTargets(written.chunks, c), outcomes, by, 1)

(***************************************************************************)
(* JavaScript numbers as they reach the server.  x, y, z and blockType of  *)
(* a BlockUpdate come out of JSON.parse unchecked, and setBlock is typed   *)
(* `number`: a value is an integer (k = "int"), v + 0.5 (k = "half"), NaN  *)
(* (what arithmetic makes of a non-numeric field) or undefined.            *)
(***************************************************************************)
JsInt(n) == [k |-> "int", v |-> n]
JsHalf(n) == [k |-> "half", v |-> n]
JsNaN == [k |-> "nan", v |-> 0]
JsUndefined == [k |-> "undefined", v |-> 0]
IsInt(a) == a.k = "int"

\* a < n, a > n and a >= n for an integer n; every comparison with NaN is false.
JsLess(a, n) == a.k # "nan" /\ a.v < n
JsGreater(a, n) == IF a.k = "int" THEN a.v > n ELSE a.k = "half" /\ a.v >= n
JsGeq(a, n) == a.k # "nan" /\ a.v >= n

\* Math.floor(a / n) and ((a % n) + n) % n
JsFloorDiv(a, n) == IF a.k = "nan" THEN JsNaN ELSE JsInt(a.v \div n)
JsMod(a, n) == IF a.k = "nan" THEN JsNaN ELSE [k |-> a.k, v |-> a.v % n]

\* worldToChunk, on numbers
JsWorldToChunk(wx, wy, wz) ==
  [cx |-> JsFloorDiv(wx, CHUNK_SIZE), cy |-> JsFloorDiv(wy, CHUNK_HEIGHT),
   cz |-> JsFloorDiv(wz, CHUNK_SIZE),
   lx |-> JsMod(wx, CHUNK_SIZE), ly |-> JsMod(wy, CHUNK_HEIGHT),
   lz |-> JsMod(wz, CHUNK_SIZE)]

\* blockIndex, on numbers: x + z * 32 + y * 1024; half a z is 16 cells and
\* half a y is 512, so only a fractional x leaves the index fractional.
JsBlockIndex(x, y, z) ==
  IF x.k = "nan" \/ y.k = "nan" \/ z.k = "nan" THEN JsNaN
  ELSE [k |-> x.k,
        v |-> x.v + z.v * CHUNK_SIZE + (IF z.k = "half" THEN CHUNK_SIZE \div 2 ELSE 0)
                  + y.v * CHUNK_SIZE * CHUNK_SIZE
                  + (IF y.k = "half" THEN (CHUNK_SIZE * CHUNK_SIZE) \div 2 ELSE 0)]

BLOCKS_PER_CHUNK == CHUNK_SIZE * CHUNK_SIZE * CHUNK_HEIGHT

\* The local cell of an array index.
CellOf(i) == <<i % CHUNK_SIZE, i \div (CHUNK_SIZE * CHUNK_SIZE), (i \div CHUNK_SIZE) % CHUNK_SIZE>>

\* The byte a Uint8Array stores for a number: NaN is stored as 0, a fraction
\* is truncated.
ToUint8(a) == IF a.k = "nan" THEN 0 ELSE a.v % 256

\* chunk[idx] = value on a Uint8Array: nothing is written unless idx is an
\* integer inside the array.
TypedArraySet(grid, idx, value) ==
  IF IsInt(idx) /\ idx.v >= 0 /\ idx.v < BLOCKS_PER_CHUNK
  THEN WriteByte(grid, CellOf(idx.v), ToUint8(value))
  ELSE grid

\* chunk[idx] on a Uint8Array: undefined unless idx is an integer inside the
\* array.  (The generated bytes of a chunk of non-integer coordinates are not
\* computed here; reading one gives "unmodelled".)
TypedArrayGet(grid, idx) ==
  IF ~(IsInt(idx) /\ idx.v >= 0 /\ idx.v < BLOCKS_PER_CHUNK) THEN JsUndefined
  ELSE IF ~Modelled(grid) /\ CellOf(idx.v) \notin DOMAIN grid.ov
       THEN [k |-> "unmodelled", v |-> 0]
       ELSE JsInt(Byte(grid, CellOf(idx.v)))

(***************************************************************************)
(* WorldManager (server).  modifiedChunks maps a key to the reference of   *)
(* the stored array, in insertion order (order); arrays holds the bytes of *)
(* the stored arrays.                                                      *)
(***************************************************************************)
NewWorldManager(seed) ==
  [seed |-> seed, terrainGenerator |-> NewTerrainGenerator(seed),
   modifiedChunks |-> [k \in {} |-> NULL], order |-> <<>>,
   arrays |-> [r \in {} |-> NULL]]

\* terrainGenerator.generateChunk(cx, cy, cz) as the server calls it.
GenerateAt(g, cx, cy, cz) ==
  IF IsInt(cx) /\ IsInt(cy) /\ IsInt(cz)
  THEN generateChunk(g, cx.v, cy.v, cz.v).data
  ELSE [gen |-> g, coords |-> <<cx, cy, cz>>, ov |-> NoOverlay]

\* The i-th array number (from 0) that no array of the world uses.
FreshId(world, i) ==
  LET used == {r.id : r \in DOMAIN world.arrays}
      free == (0..(Cardinality(used) + i)) \ used
  IN  CHOOSE n \in free : Cardinality({m \in free : m < n}) = i

\* (the generated array stored as it is)
SameArray(generated, n) == generated

\* new Uint8Array(generated): another array with the same bytes.
Uint8ArrayFrom(generated, n) == CopyRef(n, "chunk")

\* (a getChunk that regenerates the chunk whatever was stored)
getChunkRegenerated(world, cx, cy, cz) ==
  GenerateAt(world.terrainGenerator, cx, cy, cz)

\* WorldManager.getChunk, lines 36-46: the bytes of the array it returns.
getChunk(world, cx, cy, cz) ==
  LET key == chunkKey(cx, cy, cz)
  IN  IF key \in DOMAIN world.modifiedChunks
      THEN world.arrays[world.modifiedChunks[key]]
      ELSE GenerateAt(world.terrainGenerator, cx, cy, cz)

\* WorldManager.getBlock, lines 48-56.
WorldManager_getBlock(world, x, y, z) ==
  IF JsLess(y, 0) \/ JsGeq(y, WORLD_HEIGHT) THEN JsInt(Air)
  ELSE LET c == JsWorldToChunk(x, y, z)
       IN  TypedArrayGet(getChunk(world, c.cx, c.cy, c.cz), JsBlockIndex(c.lx, c.ly, c.lz))

\* (a height check that lets y = WORLD_HEIGHT through)
OutsideWorldLoose(y) == JsLess(y, 0) \/ JsGreater(y, WORLD_HEIGHT)

\* y < 0 || y >= WORLD_HEIGHT
OutsideWorld(y) == JsLess(y, 0) \/ JsGeq(y, WORLD_HEIGHT)

\* type < 0 || type > BlockType.Flower
InvalidType(type) == JsLess(type, 0) \/ JsGreater(type, Flower)

\* WorldManager.setBlock, lines 58-80: the world after the call and what the
\* call returned.
WorldManager_setBlock(world, x, y, z, type) ==
  IF OutsideWorld(y) THEN [world |-> world, ret |-> FALSE]
  ELSE IF InvalidType(type) THEN [world |-> world, ret |-> FALSE]
  ELSE
    LET c == JsWorldToChunk(x, y, z)
        key == chunkKey(c.cx, c.cy, c.cz)
        generated == GenRef(FreshId(world, 0))
        chunk == IF key \in DOMAIN world.modifiedChunks THEN world.modifiedChunks[key]
                 ELSE Uint8ArrayFrom(generated, FreshId(world, 1))
        created ==
          IF key \in DOMAIN world.modifiedChunks THEN world
          ELSE [world EXCEPT
                  !.modifiedChunks = Put(@, key, chunk),
                  !.order = Append(@, key),
                  !.arrays = Put(@, chunk,
                                 GenerateAt(world.terrainGenerator, c.cx, c.cy, c.cz))]
    IN  [world |-> [created EXCEPT
                      !.arrays[chunk] =
                        TypedArraySet(@, JsBlockIndex(c.lx, c.ly, c.lz), type)],
         ret |-> TRUE]

(***************************************************************************)
(* Engine.init and the room hand-shake (NetworkManager.handleCreateRoom,   *)
(* main.ts roomCreated handler).                                           *)
(***************************************************************************)
\* Engine.init, lines 186-188: the seed the client's ChunkManager is built with.
EngineSeed(msg) == ENGINE_SEED


(***************************************************************************)
(* Inputs.                                                                 *)
(***************************************************************************)
Seeds == {ENGINE_SEED, 777}
HardwareConcurrencies == 2..MaxCores
PlayerXs == {0, CHUNK_SIZE}
PlayerZs == {0}
EditPositions == {<<0, 31, 0>>, <<32, 40, 0>>}
EditTypes == {Air, Planks}
Priorities == {1, 5, 9}
ProbeCells == {<<0, 31, 0>>, <<0, 8, 0>>, <<5, 0, 7>>}

(***************************************************************************)
(* The state as the records the operators work on, and back.               *)
(***************************************************************************)
Pool ==
  [workers |-> workers, queue |-> queue, nextId |-> nextId,
   pendingResolves |-> pendingResolves, promise |-> promise, heap |-> heap,
   handed |-> handed, thrown |-> FALSE]

Manager ==
  [chunks |-> chunks, scene |-> scene, awaiting |-> awaiting,
   terrainGenerator |-> terrainGenerator, playerX |-> playerX, playerZ |-> playerZ,
   p |-> Pool]

\* The arrays something still refers to; the others are collected.
LiveRefs(s) ==
  {s.chunks[k].data : k \in DOMAIN s.chunks}
    \cup {s.awaiting[id].data : id \in DOMAIN s.awaiting}
    \cup {s.p.queue[i].chunkData : i \in DOMAIN s.p.queue}
    \cup UNION {{s.p.queue[i].neighbors[n] : n \in NeighborNames} : i \in DOMAIN s.p.queue}
    \cup UNION {MessageBuffers(s.p.workers[i].msg) :
                  i \in {j \in DOMAIN s.p.workers : s.p.workers[j].msg # NULL}}

Commit(s) ==
  /\ chunks' = s.chunks
  /\ scene' = s.scene
  /\ awaiting' = s.awaiting
  /\ terrainGenerator' = s.terrainGenerator
  /\ playerX' = s.playerX
  /\ playerZ' = s.playerZ
  /\ workers' = s.p.workers
  /\ queue' = s.p.queue
  /\ nextId' = s.p.nextId
  /\ pendingResolves' = s.p.pendingResolves
  /\ promise' = s.p.promise
  /\ handed' = s.p.handed
  /\ heap' = Restrict(s.p.heap, LiveRefs(s))

(***************************************************************************)
(* Actions.                                                                *)
(***************************************************************************)
\* NetworkManager.handleCreateRoom: a random seed, a world built from it, and
\* RoomCreated{seed} sent to the creator.
CreateRoom(seed) ==
  /\ room = NULL
  /\ engine = NULL
  /\ room' = [seed |-> seed, world |-> NewWorldManager(seed)]
  /\ net' = Append(net, [type |-> "RoomCreated", seed |-> seed])
  /\ event' = [type |-> "createRoom"]
  /\ UNCHANGED <<clientVars, poolVars, genVars, harnessVars>>

\* initEngine / Engine.init / new ChunkManager(scene, seed) / new WorkerPool().
InitEngine(seed, hardwareConcurrency) ==
  /\ engine' = [seed |-> seed]
  /\ terrainGenerator' = NewTerrainGenerator(seed)
  /\ workers' = NewWorkers(hardwareConcurrency)
  /\ UNCHANGED <<chunks, scene, playerX, playerZ, awaiting, updates, edits>>
  /\ UNCHANGED <<heap, queue, nextId, pendingResolves, promise, handed, late, hung, errors>>
  /\ UNCHANGED <<genVars, harnessVars>>

\* main.ts, the roomCreated handler.
RoomCreated(hardwareConcurrency) ==
  /\ engine = NULL
  /\ net # <<>>
  /\ Head(net).type = "RoomCreated"
  /\ net' = Tail(net)
  /\ InitEngine(EngineSeed(Head(net)), hardwareConcurrency)
  /\ event' = [type |-> "roomCreated"]
  /\ UNCHANGED room

\* main.ts, startSoloGame.
StartSolo(hardwareConcurrency) ==
  /\ engine = NULL
  /\ room = NULL
  /\ InitEngine(EngineSeed(NULL), hardwareConcurrency)
  /\ event' = [type |-> "startSolo"]
  /\ UNCHANGED netVars

\* Engine.update: chunkManager.update(pos.x, pos.z).
Update(x, z) ==
  /\ engine # NULL
  /\ updates < MaxUpdates
  /\ updates' = updates + 1
  /\ Commit(update(Manager, x, z))
  /\ event' = [type |-> "update",
               detached |-> UNION {EntryMeshes(chunks[k]) :
                                     k \in (DOMAIN chunks) \ (DOMAIN chunks')}]
  /\ UNCHANGED <<engine, edits, late, hung, errors, netVars, genVars, harnessVars>>

\* ChunkManager.setBlock (a block placed or broken, or a BlockChanged message).
SetBlock(pos, type) ==
  /\ engine # NULL
  /\ edits < MaxEdits
  /\ edits' = edits + 1
  /\ LET c == worldToChunk(pos[1], pos[2], pos[3])
         targets == RebuildTargets(chunks, c)
     IN  \E outcomes \in [1..Len(targets) -> MeshOutcomes] :
           Commit(setBlock(Manager, pos[1], pos[2], pos[3], type, outcomes,
                           SyncRequest(edits + 1)))
  /\ event' = [type |-> "setBlock", pos |-> pos, blockType |-> type]
  /\ UNCHANGED <<engine, updates, late, hung, errors, netVars, genVars, harnessVars>>

\* A worker posts its answer: worker.onmessage, then the continuation of the
\* promise it resolved.
WorkerReply(i, outcome, throws) ==
  /\ i \in DOMAIN workers
  /\ workers[i].msg # NULL
  /\ i \notin hung
  /\ LET id == workers[i].msg.id
         result == WorkerResult(Pool, i, outcome)
         answered == [Manager EXCEPT !.p = onmessage(WorkerDone(@, i), i, id, throws)]
     IN  /\ Commit(Continue(answered, id, result, outcome, SyncRequest(0)))
         /\ event' = [type |-> "reply", id |-> id, key |-> awaiting[id].key,
                       gen |-> awaiting[id].gen, data |-> awaiting[id].data,
                       result |-> result]
  /\ late' = TRUE
  /\ UNCHANGED <<engine, updates, edits, hung, errors, netVars, genVars, harnessVars>>

\* A worker raises an error event while it works on a job: worker.onerror.
WorkerError(i, outcome, throws) ==
  /\ i \in DOMAIN workers
  /\ workers[i].msg # NULL
  /\ i \notin hung
  /\ errors < MaxErrors
  /\ errors' = errors + 1
  /\ LET id == workers[i].msg.id
         failed == [Manager EXCEPT !.p = onerror(WorkerDone(@, i), i, throws)]
     IN  /\ Commit(Continue(failed, id, NULL, outcome, SyncRequest(0)))
         /\ event' = [type |-> "error", id |-> id, key |-> awaiting[id].key,
                       gen |-> awaiting[id].gen, data |-> awaiting[id].data]
  /\ late' = TRUE
  /\ UNCHANGED <<engine, updates, edits, hung, netVars, genVars, harnessVars>>

Init ==
  /\ heap = [r \in {} |-> NULL]
  /\ engine = NULL
  /\ terrainGenerator = NULL
  /\ chunks = [k \in {} |-> NULL]
  /\ scene = {}
  /\ playerX = 0
  /\ playerZ = 0
  /\ workers = <<>>
  /\ queue = <<>>
  /\ nextId = 0
  /\ pendingResolves = {}
  /\ promise = [id \in {} |-> NULL]
  /\ awaiting = [id \in {} |-> NULL]
  /\ room = NULL
  /\ net = <<>>
  /\ gens = <<>>
  /\ out = <<>>
  /\ event = [type |-> "init"]
  /\ handed = <<>>
  /\ late = FALSE
  /\ hung = {}
  /\ updates = 0
  /\ edits = 0
  /\ errors = 0
  /\ worldManager = NULL
  /\ file = NULL
  /\ players = <<>>
  /\ meshIn = NULL

Next ==
  \/ \E seed \in Seeds : CreateRoom(seed)
  \/ \E hc \in HardwareConcurrencies : RoomCreated(hc)
  \/ \E hc \in HardwareConcurrencies : StartSolo(hc)
  \/ \E x \in PlayerXs, z \in PlayerZs : Update(x, z)
  \/ \E pos \in EditPositions, type \in EditTypes : SetBlock(pos, type)
  \/ \E i \in 1..4, outcome \in MeshOutcomes : WorkerReply(i, outcome, FALSE)
  \/ \E i \in 1..4 : WorkerError(i, [opaque |-> TRUE, water |-> TRUE], FALSE)

Spec == Init /\ [][Next]_vars


(***************************************************************************)
(* Properties of the client (Spec).                                        *)
(***************************************************************************)
\* C1 (as claimed): once setBlock has remeshed a chunk, the result of a worker
\* job for that chunk that a worker held before the edit is never applied: no
\* entry has its mesh state set by a job of its preEdit set.
C1_OnlyLatestRequestApplied ==
  \A k \in DOMAIN chunks :
    chunks[k].meshBy.k = "job" => chunks[k].meshBy.id \notin chunks[k].preEdit

\* C2 (as claimed): the result of a job issued for an entry that was evicted
\* is never applied to any entry: an entry's mesh state is only ever set by a
\* job that was issued for that entry's own array.
C2_EvictedJobNeverApplied ==
  \A k \in DOMAIN chunks :
    chunks[k].meshBy.k = "job" => chunks[k].meshBy.data = chunks[k].data

\* C3 (as claimed): when a worker raises an error event while it holds the job
\* of a chunk that is still loaded, the job's promise is rejected and the
\* synchronous mesher has set the chunk's mesh state.
C3_ErrorFallsBackToSync ==
  (/\ event.type = "error"
   /\ event.key \in DOMAIN chunks
   /\ chunks[event.key].data = event.data)
  => (/\ promise[event.id] = "rejected"
      /\ ~chunks[event.key].meshing
      /\ chunks[event.key].meshBy.k = "sync")

MainRefs ==
  {chunks[k].data : k \in DOMAIN chunks}
    \cup {awaiting[id].data : id \in DOMAIN awaiting}
    \cup {queue[i].chunkData : i \in DOMAIN queue}
    \cup UNION {{queue[i].neighbors[n] : n \in NeighborNames} \ {NULL} : i \in DOMAIN queue}

Holding == {i \in DOMAIN workers : workers[i].msg # NULL}

NoSharedArrays ==
  /\ \A r \in MainRefs : r \in DOMAIN heap /\ heap[r].side = "main"
  /\ \A i \in Holding : \A b \in MessageBuffers(workers[i].msg) :
       b \notin MainRefs /\ b \in DOMAIN heap /\ heap[b].side = "worker"

\* C8: the buffers of a worker's message are never arrays the main thread
\* refers to, every array the main thread refers to stays attached, and no
\* step of the main thread changes the buffers of a message a worker holds.
C8_NoArrayCrossesTheBoundary ==
  [][/\ NoSharedArrays'
     /\ \A i \in Holding :
          (i \in DOMAIN workers' /\ workers'[i].msg = workers[i].msg)
          => \A b \in MessageBuffers(workers[i].msg) : heap'[b] = heap[b]]_vars

\* C8, its case: setBlock changed the grid of an entry after a job for it was
\* handed over; the worker's copy still holds the bytes of the hand-off.
C8_Witness ==
  \E i \in Holding :
    LET id == workers[i].msg.id
    IN  /\ id \in DOMAIN awaiting
        /\ awaiting[id].key \in DOMAIN chunks
        /\ chunks[awaiting[id].key].data = awaiting[id].data
        /\ heap[awaiting[id].data].grid # heap[workers[i].msg.chunkData].grid

\* C9 (as claimed): in a room, every byte of the grid of a loaded, unmodified
\* chunk equals the byte the server's getChunk returns for that chunk.
C9_ClientTerrainIsServerTerrain ==
  (room # NULL /\ engine # NULL)
  => \A k \in DOMAIN chunks :
       heap[chunks[k].data].grid.ov = NoOverlay
       => \A cell \in ProbeCells :
            Byte(heap[chunks[k].data].grid, cell)
              = Byte(getChunk(room.world, JsInt(k[1]), JsInt(k[2]), JsInt(k[3])), cell)


(***************************************************************************)
(* The pool on its own (SpecPool): jobs submitted through meshChunk, the   *)
(* workers' answers and error events, postMessage throwing or not.  A      *)
(* worker of `hung` never answers the job it is given.                     *)
(***************************************************************************)
PoolCores == 0..MaxPoolCores
JobIds == 0..(MaxJobs - 1)
PoolGrid == GenRef(0)

CommitPool(p) ==
  /\ workers' = p.workers
  /\ queue' = p.queue
  /\ nextId' = p.nextId
  /\ pendingResolves' = p.pendingResolves
  /\ promise' = p.promise
  /\ handed' = p.handed
  /\ heap' = p.heap

InitPool ==
  /\ \E hc \in PoolCores :
       /\ workers = NewWorkers(hc)
       /\ hung \in {{}} \cup {{i} : i \in 1..WorkerCount(hc)}
  /\ heap = [r \in {PoolGrid} |->
               [grid |-> NewGrid(NewTerrainGenerator(ENGINE_SEED), chunkKey(0, 0, 0)),
                side |-> "main"]]
  /\ engine = NULL
  /\ terrainGenerator = NULL
  /\ chunks = [k \in {} |-> NULL]
  /\ scene = {}
  /\ playerX = 0
  /\ playerZ = 0
  /\ queue = <<>>
  /\ nextId = 0
  /\ pendingResolves = {}
  /\ promise = [id \in {} |-> NULL]
  /\ awaiting = [id \in {} |-> NULL]
  /\ room = NULL
  /\ net = <<>>
  /\ gens = <<>>
  /\ out = <<>>
  /\ event = [type |-> "init"]
  /\ handed = <<>>
  /\ late = FALSE
  /\ updates = 0
  /\ edits = 0
  /\ errors = 0
  /\ worldManager = NULL
  /\ file = NULL
  /\ players = <<>>
  /\ meshIn = NULL

\* workerPool.meshChunk(data, neighbors, cx, cy, cz, priority)
PoolSubmit(priority, throws) ==
  /\ nextId < MaxJobs
  /\ throws => errors < MaxErrors
  /\ LET p == meshChunk(Pool, PoolGrid, NoNeighbors, 0, 0, 0, priority, throws)
         threw == p.promise[nextId] = "rejected"
     IN  /\ throws => threw
         /\ CommitPool(p)
         /\ errors' = IF threw THEN errors + 1 ELSE errors
         /\ event' = [type |-> "submit", id |-> nextId, threw |-> threw]
  /\ UNCHANGED <<clientVars, late, hung, netVars, genVars, harnessVars>>

\* worker.onmessage with the worker's answer.
PoolReply(i, throws) ==
  /\ i \in DOMAIN workers
  /\ workers[i].msg # NULL
  /\ i \notin hung
  /\ throws => errors < MaxErrors
  /\ LET id == workers[i].msg.id
         p == onmessage(WorkerDone(Pool, i), i, id, throws)
     IN  /\ throws => p.thrown
         /\ CommitPool(p)
         /\ errors' = IF p.thrown THEN errors + 1 ELSE errors
         /\ event' = [type |-> "reply", id |-> id, threw |-> p.thrown]
  /\ late' = (late \/ nextId < MaxJobs)
  /\ UNCHANGED <<clientVars, hung, netVars, genVars, harnessVars>>

\* worker.onerror.
PoolError(i, throws) ==
  /\ i \in DOMAIN workers
  /\ workers[i].msg # NULL
  /\ i \notin hung
  /\ errors + (IF throws THEN 2 ELSE 1) <= MaxErrors
  /\ LET id == workers[i].msg.id
         p == onerror(WorkerDone(Pool, i), i, throws)
     IN  /\ throws => p.thrown
         /\ CommitPool(p)
         /\ errors' = errors + (IF p.thrown THEN 2 ELSE 1)
         /\ event' = [type |-> "error", id |-> id, threw |-> p.thrown]
  /\ late' = (late \/ nextId < MaxJobs)
  /\ UNCHANGED <<clientVars, hung, netVars, genVars, harnessVars>>

NextPool ==
  \/ \E priority \in Priorities, throws \in BOOLEAN : PoolSubmit(priority, throws)
  \/ \E i \in 1..4, throws \in BOOLEAN : PoolReply(i, throws)
  \/ \E i \in 1..4, throws \in BOOLEAN : PoolError(i, throws)

SpecPool == InitPool /\ [][NextPool]_vars

\* The pool with no error event and no throw; a worker that is not hung
\* posts its answer, and the event loop delivers it.
NextHang ==
  \/ \E priority \in Priorities : PoolSubmit(priority, FALSE)
  \/ \E i \in 1..4 : PoolReply(i, FALSE)

SpecHang ==
  InitPool /\ [][NextHang]_vars /\ \A i \in 1..4 : WF_vars(PoolReply(i, FALSE))


(***************************************************************************)
(* Properties of the pool.                                                 *)
(***************************************************************************)
HandedPriorities == [i \in DOMAIN handed |-> handed[i].priority]

PriorityOf(id) == (CHOOSE i \in DOMAIN handed : handed[i].id = id)

\* A run of a 1-worker pool in which no job completed before the last
\* submission, no error was raised and nothing threw.
OneWorkerBurst == Len(workers) = 1 /\ ~late /\ errors = 0

\* C4 (as claimed): in a 1-worker pool, jobs submitted with priorities 5, 1, 9
\* and no completion in between are handed to the worker in the order 9, 5, 1.
C4_HandedByPriority ==
  (/\ OneWorkerBurst
   /\ Len(handed) = 3
   /\ \A i \in 1..3 : handed[i].id \in 0..2
   /\ handed[PriorityOf(0)].priority = 5
   /\ handed[PriorityOf(1)].priority = 1
   /\ handed[PriorityOf(2)].priority = 9)
  => HandedPriorities = <<9, 5, 1>>

\* C4 (amended): in a 1-worker pool, the first job of a burst goes to the idle
\* worker at once, whatever its priority; the jobs submitted while the worker
\* is busy are handed in non-increasing priority order, in submission order
\* among equals.
C4_FirstThenByPriority ==
  OneWorkerBurst
  => /\ handed # <<>> => handed[1].id = 0
     /\ \A i, j \in 2..Len(handed) :
          i < j => \/ handed[i].priority > handed[j].priority
                   \/ /\ handed[i].priority = handed[j].priority
                      /\ handed[i].id < handed[j].id

\* C4, its case: priorities 5, 1, 9 submitted in a burst were handed 5, 9, 1.
C4_Witness ==
  /\ OneWorkerBurst
  /\ [i \in DOMAIN handed |-> handed[i].id] = <<0, 2, 1>>
  /\ HandedPriorities = <<5, 9, 1>>

HeldByHung(id) == \E i \in hung : workers[i].msg # NULL /\ workers[i].msg.id = id

C7_NoBusyWorkerWithoutJob ==
  \A i \in DOMAIN workers : workers[i].busy => workers[i].msg # NULL


(***************************************************************************)
(* The generator on its own (SpecGen): two TerrainGenerator instances      *)
(* built from one seed, generateChunk called on either, for any of a few   *)
(* chunk coordinates, in any order.                                        *)
(***************************************************************************)
GenKeys == {chunkKey(0, 0, 0), chunkKey(0, 1, 0), chunkKey(-1, 2, 1)}

InitGen ==
  /\ \E seed \in Seeds : gens = [i \in 1..2 |-> NewTerrainGenerator(seed)]
  /\ out = <<>>
  /\ heap = [r \in {} |-> NULL]
  /\ engine = NULL
  /\ terrainGenerator = NULL
  /\ chunks = [k \in {} |-> NULL]
  /\ scene = {}
  /\ playerX = 0
  /\ playerZ = 0
  /\ workers = <<>>
  /\ queue = <<>>
  /\ nextId = 0
  /\ pendingResolves = {}
  /\ promise = [id \in {} |-> NULL]
  /\ awaiting = [id \in {} |-> NULL]
  /\ room = NULL
  /\ net = <<>>
  /\ event = [type |-> "init"]
  /\ handed = <<>>
  /\ late = FALSE
  /\ hung = {}
  /\ updates = 0
  /\ edits = 0
  /\ errors = 0
  /\ worldManager = NULL
  /\ file = NULL
  /\ players = <<>>
  /\ meshIn = NULL

\* gens[i].generateChunk(cx, cy, cz)
GenCall(i, key) ==
  /\ Len(out) < MaxCalls
  /\ LET r == generateChunk(gens[i], key[1], key[2], key[3])
     IN  /\ gens' = [gens EXCEPT ![i] = r.gen]
         /\ out' = Append(out, [inst |-> i, key |-> key, data |-> r.data])
  /\ event' = [type |-> "generateChunk"]
  /\ UNCHANGED <<clientVars, poolVars, netVars, harnessVars>>

NextGen == \E i \in 1..2, key \in GenKeys : GenCall(i, key)

SpecGen == InitGen /\ [][NextGen]_vars

SAVE_VERSION == 1
HEADER_SIZE == 12
CHUNK_KEY_SIZE == 12

\* writeInt32 of a key part: Number("NaN") is written as 0.
Int32Written(a) == IF a.k = "nan" THEN 0 ELSE a.v

FileSize(chunkCount) == HEADER_SIZE + chunkCount * (CHUNK_KEY_SIZE + BLOCKS_PER_CHUNK)

\* saveWorld, lines 22-54: the file it writes.
saveWorld(seed, world) ==
  [len |-> FileSize(Len(world.order)),
   version |-> SAVE_VERSION,
   seed |-> seed,
   chunkCount |-> Len(world.order),
   chunks |-> [i \in 1..Len(world.order) |->
                 LET key == world.order[i]
                 IN  [cx |-> Int32Written(key[1]), cy |-> Int32Written(key[2]),
                      cz |-> Int32Written(key[3]),
                      data |-> world.arrays[world.modifiedChunks[key]]]]]

\* WorldManager.save, lines 24-27: the file afterwards.
WorldManager_save(world, f) ==
  IF Len(world.order) = 0 THEN f ELSE saveWorld(world.seed, world)

\* The offset of chunk i in the file.
ChunkOffset(i) == HEADER_SIZE + (i - 1) * (CHUNK_KEY_SIZE + BLOCKS_PER_CHUNK)

\* An array filled from `grid` up to index n only: zero from there on.
ZeroFrom(grid, n) ==
  LET ov == Restrict(grid.ov, {c \in DOMAIN grid.ov : blockIndex(c[1], c[2], c[3]) < n})
      from == IF "zeroFrom" \in DOMAIN grid THEN Min(grid.zeroFrom, n) ELSE n
  IN  IF "key" \in DOMAIN grid
      THEN [gen |-> grid.gen, key |-> grid.key, ov |-> ov, zeroFrom |-> from]
      ELSE [gen |-> grid.gen, coords |-> grid.coords, ov |-> ov, zeroFrom |-> from]

\* loadWorld, lines 82-84: data[j] = buf[offset + j]; past the end of the
\* buffer buf[...] is undefined and the byte stays 0.
ReadData(f, i) ==
  LET present == f.len - (ChunkOffset(i) + CHUNK_KEY_SIZE)
  IN  IF present >= BLOCKS_PER_CHUNK THEN f.chunks[i].data
      ELSE ZeroFrom(f.chunks[i].data, present)

\* loadWorld's loop, lines 73-88: modifiedChunks.set in file order; a key set
\* again keeps its place and takes the later array.
RECURSIVE ReadChunks(_, _, _)
ReadChunks(f, i, acc) ==
  IF i > f.chunkCount THEN acc
  ELSE LET c == f.chunks[i]
           key == chunkKey(JsInt(c.cx), JsInt(c.cy), JsInt(c.cz))
       IN  ReadChunks(f, i + 1,
             [keys |-> IF key \in DOMAIN acc.data THEN acc.keys ELSE Append(acc.keys, key),
              data |-> Put(acc.data, key, ReadData(f, i))])

\* loadWorld, lines 56-97: NULL, or the seed and the chunks read.  readInt32LE
\* past the end of the buffer throws, which the catch turns into null.
loadWorld(f) ==
  IF f = NULL THEN NULL
  ELSE IF f.len < 4 THEN NULL
  ELSE IF f.version # SAVE_VERSION THEN NULL
  ELSE IF f.len < HEADER_SIZE THEN NULL
  ELSE IF \E i \in 1..f.chunkCount : ChunkOffset(i) + CHUNK_KEY_SIZE > f.len THEN NULL
  ELSE LET read == ReadChunks(f, 1, [keys |-> <<>>, data |-> [k \in {} |-> NULL]])
       IN  [seed |-> f.seed, keys |-> read.keys, modifiedChunks |-> read.data]

\* WorldManager.loadSave, lines 29-34: the world afterwards and what the call
\* returned.  The arrays loadWorld allocated replace the stored ones.
WorldManager_loadSave(world, f) ==
  LET data == loadWorld(f)
  IN  IF data = NULL THEN [world |-> world, ret |-> FALSE]
      ELSE LET ref(j) == CopyRef(FreshId(world, j - 1), "data")
               at(k) == CHOOSE j \in 1..Len(data.keys) : data.keys[j] = k
           IN  [world |-> [world EXCEPT
                             !.modifiedChunks = [k \in DOMAIN data.modifiedChunks |-> ref(at(k))],
                             !.order = data.keys,
                             !.arrays = [r \in {ref(j) : j \in 1..Len(data.keys)} |->
                                           data.modifiedChunks[
                                             CHOOSE k \in DOMAIN data.modifiedChunks :
                                               ref(at(k)) = r]]],
                ret |-> TRUE]

(***************************************************************************)
(* NetworkManager: block updates.  players holds the sockets: whether the  *)
(* socket is in the room (wsToPlayer and room.players have it), its        *)
(* readyState, and what was sent on it.                                    *)
(***************************************************************************)
\* broadcastToRoom, lines 344-354
broadcastToRoom(sockets, message) ==
  [i \in DOMAIN sockets |->
     IF sockets[i].inRoom /\ sockets[i].readyState = "OPEN"
     THEN [sockets[i] EXCEPT !.inbox = Append(@, message)]
     ELSE sockets[i]]

\* handleBlockUpdate, lines 263-290: the world and the sockets afterwards.
handleBlockUpdate(world, sockets, ws, x, y, z, blockType) ==
  LET unchanged == [world |-> world, players |-> sockets, applied |-> FALSE]
  IN  IF ~sockets[ws].inRoom THEN unchanged
      ELSE IF JsLess(blockType, 0) \/ JsGreater(blockType, Flower) THEN unchanged
      ELSE IF JsLess(y, 0) \/ JsGeq(y, WORLD_HEIGHT) THEN unchanged
      ELSE LET r == WorldManager_setBlock(world, x, y, z, blockType)
           IN  IF ~r.ret THEN unchanged
               ELSE [world |-> r.world,
                     players |-> broadcastToRoom(sockets,
                                   [type |-> "BlockChanged", x |-> x, y |-> y, z |-> z,
                                    blockType |-> blockType,
                                    playerId |-> sockets[ws].playerId]),
                     applied |-> TRUE]

(***************************************************************************)
(* The server's world on its own (SpecWorld): one WorldManager, its save   *)
(* file, and three sockets of which the third is in no room.  setBlock,    *)
(* getBlock, getChunk, save and loadSave are called in any order, block    *)
(* updates arrive from any socket, and the file can be damaged between a   *)
(* save and a load.                                                        *)
(***************************************************************************)
MaxWorldEdits == 2

\* Calls <<x, y, z, type>>: two edits in range, the three rejected by the
\* bounds, and five with a NaN or fractional argument.
WorldEdits ==
  {<<JsInt(0), JsInt(0), JsInt(0), JsInt(Grass)>>,
   <<JsInt(0), JsInt(40), JsInt(0), JsInt(Planks)>>,
   <<JsInt(0), JsInt(-1), JsInt(0), JsInt(Grass)>>,
   <<JsInt(0), JsInt(WORLD_HEIGHT), JsInt(0), JsInt(Grass)>>,
   <<JsInt(0), JsInt(0), JsInt(0), JsInt(Flower + 1)>>,
   <<JsNaN, JsInt(0), JsInt(0), JsInt(Grass)>>,
   <<JsHalf(1), JsInt(0), JsInt(0), JsInt(Grass)>>,
   <<JsInt(0), JsNaN, JsInt(0), JsInt(Grass)>>,
   <<JsInt(0), JsInt(0), JsHalf(1), JsInt(Grass)>>,
   <<JsInt(0), JsInt(0), JsInt(0), JsNaN>>}
SaveEdits ==
  {<<JsInt(0), JsInt(0), JsInt(0), JsInt(Grass)>>,
   <<JsInt(0), JsInt(40), JsInt(0), JsInt(Planks)>>,
   <<JsNaN, JsInt(0), JsInt(0), JsInt(Grass)>>}
WorldReads ==
  {<<JsInt(0), JsInt(0), JsInt(0)>>, <<JsInt(0), JsInt(40), JsInt(0)>>,
   <<JsInt(16), JsInt(0), JsInt(1)>>, <<JsInt(0), JsInt(WORLD_HEIGHT), JsInt(0)>>,
   <<JsNaN, JsInt(0), JsInt(0)>>}
Sockets == 1..3

\* Lengths a damaged file is cut or padded to: inside the header, inside the
\* key of its last chunk, inside the block bytes of its last chunk, and one
\* byte more than was written.
Cuts == {"header", "key", "data", "padded"}

DamagedLength(f, cut) ==
  CASE cut = "header" -> HEADER_SIZE - 2
    [] cut = "key" -> ChunkOffset(f.chunkCount) + 4
    [] cut = "data" -> ChunkOffset(f.chunkCount) + CHUNK_KEY_SIZE + blockIndex(0, 1, 0)
    [] cut = "padded" -> FileSize(f.chunkCount) + 1

InitWorld ==
  /\ worldManager = NewWorldManager(ENGINE_SEED)
  /\ file = NULL
  /\ players = [i \in Sockets |->
                  [playerId |-> i, inRoom |-> i # 3, readyState |-> "OPEN", inbox |-> <<>>]]
  /\ meshIn = NULL
  /\ heap = [r \in {} |-> NULL]
  /\ engine = NULL
  /\ terrainGenerator = NULL
  /\ chunks = [k \in {} |-> NULL]
  /\ scene = {}
  /\ playerX = 0
  /\ playerZ = 0
  /\ workers = <<>>
  /\ queue = <<>>
  /\ nextId = 0
  /\ pendingResolves = {}
  /\ promise = [id \in {} |-> NULL]
  /\ awaiting = [id \in {} |-> NULL]
  /\ room = NULL
  /\ net = <<>>
  /\ gens = <<>>
  /\ out = <<>>
  /\ event = [type |-> "init"]
  /\ handed = <<>>
  /\ late = FALSE
  /\ hung = {}
  /\ updates = 0
  /\ edits = 0
  /\ errors = 0

worldFrame == <<heap, engine, terrainGenerator, chunks, scene, playerX, playerZ, workers,
                queue, nextId, pendingResolves, promise, awaiting, room, net, gens, out,
                handed, late, hung, updates, errors, meshIn>>

\* world.setBlock(x, y, z, type)
WorldSetBlock(x, y, z, type) ==
  /\ edits < MaxWorldEdits
  /\ LET r == WorldManager_setBlock(worldManager, x, y, z, type)
     IN  /\ worldManager' = r.world
         /\ event' = [type |-> "setBlock", x |-> x, y |-> y, z |-> z, blockType |-> type,
                      ret |-> r.ret]
  /\ edits' = edits + 1
  /\ UNCHANGED <<file, players, worldFrame>>

\* world.getBlock(x, y, z)
WorldGetBlock(x, y, z) ==
  /\ event' = [type |-> "getBlock", x |-> x, y |-> y, z |-> z,
               value |-> WorldManager_getBlock(worldManager, x, y, z)]
  /\ UNCHANGED <<worldManager, file, players, edits, worldFrame>>

\* world.getChunk(cx, cy, cz)
WorldGetChunk(cx, cy, cz) ==
  /\ event' = [type |-> "getChunk", key |-> chunkKey(cx, cy, cz),
               data |-> getChunk(worldManager, cx, cy, cz)]
  /\ UNCHANGED <<worldManager, file, players, edits, worldFrame>>

\* A BlockUpdate message arrives on socket ws.
BlockUpdate(ws, x, y, z, blockType) ==
  /\ edits < MaxWorldEdits
  /\ LET r == handleBlockUpdate(worldManager, players, ws, x, y, z, blockType)
     IN  /\ worldManager' = r.world
         /\ players' = r.players
         /\ event' = [type |-> "BlockUpdate", ws |-> ws, x |-> x, y |-> y, z |-> z,
                      blockType |-> blockType, applied |-> r.applied]
  /\ edits' = edits + 1
  /\ UNCHANGED <<file, worldFrame>>

\* The socket starts closing; its close event has not been handled yet.
SocketClosing(ws) ==
  /\ \A i \in Sockets : players[i].readyState = "OPEN"
  /\ players' = [players EXCEPT ![ws].readyState = "CLOSING"]
  /\ event' = [type |-> "closing", ws |-> ws]
  /\ UNCHANGED <<worldManager, file, edits, worldFrame>>

\* world.save(worldsDir, roomCode).  writeInt32LE is specified for int32 values
\* only: given the NaN of a key it writes 0 or throws, and a throw leaves the
\* file as it was.
WorldSave(throws) ==
  /\ throws => \E key \in DOMAIN worldManager.modifiedChunks :
                 \E i \in 1..3 : key[i].k = "nan"
  /\ file' = IF throws THEN file ELSE WorldManager_save(worldManager, file)
  /\ event' = [type |-> "save", chunkCount |-> Len(worldManager.order), threw |-> throws]
  /\ UNCHANGED <<worldManager, players, edits, worldFrame>>

\* world.loadSave(worldsDir, roomCode)
WorldLoadSave ==
  /\ LET r == WorldManager_loadSave(worldManager, file)
     IN  /\ worldManager' = r.world
         /\ event' = [type |-> "loadSave", ret |-> r.ret, data |-> loadWorld(file)]
  /\ UNCHANGED <<file, players, edits, worldFrame>>

\* The file is cut short or padded on disk.
CutFile(cut) ==
  /\ file # NULL
  /\ file.len = FileSize(file.chunkCount)
  /\ file.version = SAVE_VERSION
  /\ file' = [file EXCEPT !.len = DamagedLength(file, cut)]
  /\ event' = [type |-> "cut", cut |-> cut]
  /\ UNCHANGED <<worldManager, players, edits, worldFrame>>

\* The file is one of another format version.
OtherVersion ==
  /\ file # NULL
  /\ file.len = FileSize(file.chunkCount)
  /\ file.version = SAVE_VERSION
  /\ file' = [file EXCEPT !.version = SAVE_VERSION + 1]
  /\ event' = [type |-> "version"]
  /\ UNCHANGED <<worldManager, players, edits, worldFrame>>

NextWorld ==
  \/ \E e \in WorldEdits : WorldSetBlock(e[1], e[2], e[3], e[4])
  \/ \E r \in WorldReads : WorldGetBlock(r[1], r[2], r[3])
  \/ \E r \in WorldReads :
       WorldGetChunk(JsFloorDiv(r[1], CHUNK_SIZE), JsFloorDiv(r[2], CHUNK_HEIGHT),
                     JsFloorDiv(r[3], CHUNK_SIZE))
  \/ \E throws \in BOOLEAN : WorldSave(throws)
  \/ WorldLoadSave

SpecWorld == InitWorld /\ [][NextWorld]_vars

\* The save file (SpecSave): edits, save and loadSave, and a file damaged on
\* disk between the two.
NextSave ==
  \/ \E e \in SaveEdits : WorldSetBlock(e[1], e[2], e[3], e[4])
  \/ \E throws \in BOOLEAN : WorldSave(throws)
  \/ WorldLoadSave
  \/ \E cut \in Cuts : CutFile(cut)
  \/ OtherVersion

SpecSave == InitWorld /\ [][NextSave]_vars

\* The room on its own (SpecRoom): block updates arriving on the sockets.
NextRoom ==
  \/ \E ws \in Sockets, e \in WorldEdits : BlockUpdate(ws, e[1], e[2], e[3], e[4])
  \/ \E ws \in Sockets : SocketClosing(ws)

SpecRoom == InitWorld /\ [][NextRoom]_vars

(***************************************************************************)
(* Properties of the server's world (SpecWorld, SpecRoom).                 *)
(***************************************************************************)
\* The key and the array index setBlock and getBlock compute for <<x, y, z>>.
KeyOf(x, y, z) ==
  LET c == JsWorldToChunk(x, y, z) IN chunkKey(c.cx, c.cy, c.cz)
IndexOf(x, y, z) ==
  LET c == JsWorldToChunk(x, y, z) IN JsBlockIndex(c.lx, c.ly, c.lz)
IntKey(key) == IsInt(key[1]) /\ IsInt(key[2]) /\ IsInt(key[3])
Stored(world, key) == world.arrays[world.modifiedChunks[key]]

\* C11: no array stored in modifiedChunks is an array the generator returned,
\* and the generator still produces the pre-edit grid for every modified
\* chunk: its fields are as constructed, and generateChunk for the chunk's
\* coordinate gives the baseline bytes whatever was written to the stored
\* array.
C11_StoredArrayIsACopy ==
  /\ worldManager.terrainGenerator = NewTerrainGenerator(worldManager.seed)
  /\ \A key \in DOMAIN worldManager.modifiedChunks :
       /\ worldManager.modifiedChunks[key].ref = "copy"
       /\ IntKey(key) =>
            LET fresh == GenerateAt(worldManager.terrainGenerator, key[1], key[2], key[3])
            IN  /\ fresh.ov = NoOverlay
                /\ \A cell \in ProbeCells \cup DOMAIN Stored(worldManager, key).ov :
                     Byte(fresh, cell)
                       = GenBlock(NewTerrainGenerator(worldManager.seed),
                                  <<key[1].v, key[2].v, key[3].v>>, cell)

\* C11, its case: setBlock has created an entry and written a byte that differs
\* from the generated one.
C11_Witness ==
  /\ event.type = "setBlock"
  /\ event.ret
  /\ \E key \in DOMAIN worldManager.modifiedChunks :
       /\ IntKey(key)
       /\ \E cell \in DOMAIN Stored(worldManager, key).ov :
            Byte(Stored(worldManager, key), cell)
              # Byte(GenerateAt(worldManager.terrainGenerator, key[1], key[2], key[3]), cell)

\* C12: an entry of modifiedChunks stays, with the same array, through every
\* call but loadSave; getChunk returns the stored array's bytes and getBlock
\* the stored byte for a modified chunk; and the byte setBlock wrote is the one
\* stored afterwards.
C12_StoredEntryIsRead ==
  [][/\ event'.type # "loadSave"
          => \A key \in DOMAIN worldManager.modifiedChunks :
               /\ key \in DOMAIN worldManager'.modifiedChunks
               /\ worldManager'.modifiedChunks[key] = worldManager.modifiedChunks[key]
     /\ (event'.type = "getChunk" /\ event'.key \in DOMAIN worldManager.modifiedChunks)
          => event'.data = Stored(worldManager, event'.key)
     /\ (/\ event'.type = "getBlock"
         /\ JsGeq(event'.y, 0) /\ JsLess(event'.y, WORLD_HEIGHT)
         /\ KeyOf(event'.x, event'.y, event'.z) \in DOMAIN worldManager.modifiedChunks
         /\ IsInt(IndexOf(event'.x, event'.y, event'.z)))
          => LET grid == Stored(worldManager, KeyOf(event'.x, event'.y, event'.z))
                 cell == CellOf(IndexOf(event'.x, event'.y, event'.z).v)
             IN  (Modelled(grid) \/ cell \in DOMAIN grid.ov)
                 => event'.value = JsInt(Byte(grid, cell))
     /\ (/\ event'.type = "setBlock"
         /\ event'.ret
         /\ IsInt(IndexOf(event'.x, event'.y, event'.z)))
          => Byte(Stored(worldManager', KeyOf(event'.x, event'.y, event'.z)),
                  CellOf(IndexOf(event'.x, event'.y, event'.z).v))
               = ToUint8(event'.blockType)
    ]_vars

\* C12, its case: getBlock on a modified chunk returned the byte an earlier
\* setBlock wrote, which is not the generated one.
C12_Witness ==
  /\ event.type = "getBlock"
  /\ event.value = JsInt(Grass)
  /\ KeyOf(event.x, event.y, event.z) \in DOMAIN worldManager.modifiedChunks
  /\ WorldManager_getBlock(NewWorldManager(worldManager.seed), event.x, event.y, event.z)
       # JsInt(Grass)

\* C13: setBlock with y < 0, y >= 256 or a type code outside 0..15 returns
\* false and leaves modifiedChunks, its arrays and every other field of the
\* world as they were.
C13_OutOfBoundsRejected ==
  [][(/\ event'.type = "setBlock"
      /\ \/ JsLess(event'.y, 0)
         \/ JsGeq(event'.y, 256)
         \/ JsLess(event'.blockType, 0)
         \/ JsGreater(event'.blockType, 15))
       => /\ ~event'.ret
          /\ worldManager' = worldManager
    ]_vars

\* C13, its case: setBlock(x, 256, z, Grass) failed on a world that already has
\* a modified chunk.
C13_Witness ==
  /\ event.type = "setBlock"
  /\ event.y = JsInt(256)
  /\ event.blockType = JsInt(Grass)
  /\ ~event.ret
  /\ DOMAIN worldManager.modifiedChunks # {}

\* A NaN or fractional coordinate, or a NaN type code.
Malformed(x, y, z, type) ==
  ~IsInt(x) \/ ~IsInt(y) \/ ~IsInt(z) \/ type.k = "nan"

\* C14 (as claimed): setBlock with a malformed coordinate or type returns
\* false and changes nothing in the world.
C14_MalformedRejected ==
  [][(/\ event'.type = "setBlock"
      /\ Malformed(event'.x, event'.y, event'.z, event'.blockType))
       => /\ ~event'.ret
          /\ worldManager' = worldManager
    ]_vars

\* C15 (as claimed): a loadSave that follows a save of a world with modified
\* chunks leaves modifiedChunks with the same keys and the same bytes under
\* each key, and the seed loadWorld read is the world's seed.
C15_RoundTrip ==
  [][(/\ event.type = "save"
      /\ event.chunkCount > 0
      /\ event'.type = "loadSave")
       => /\ event'.ret
          /\ event'.data # NULL
          /\ event'.data.seed = worldManager.seed
          /\ DOMAIN worldManager'.modifiedChunks = DOMAIN worldManager.modifiedChunks
          /\ \A key \in DOMAIN worldManager.modifiedChunks :
               key \in DOMAIN worldManager'.modifiedChunks
               => Stored(worldManager', key) = Stored(worldManager, key)
    ]_vars

\* C16 (as claimed): loading a file of another version, or of a length that is
\* not 12 + chunkCount * (12 + 32768), gives null from loadWorld and false from
\* loadSave, and leaves the world as it was.
C16_CorruptFileGivesNoData ==
  [][(/\ event'.type = "loadSave"
      /\ file # NULL
      /\ \/ file.version # 1
         \/ file.len # 12 + file.chunkCount * (12 + 32768))
       => /\ event'.data = NULL
          /\ ~event'.ret
          /\ worldManager' = worldManager
    ]_vars

\* C19 (as claimed): a BlockUpdate from a socket in the room is applied to the
\* world and BlockChanged is sent to every player of the room whose socket is
\* open, the sender included, exactly when 0 <= blockType <= 15 and
\* 0 <= y < 256; otherwise the world is unchanged and nothing is sent.
C19_BlockUpdateAppliedAndBroadcast ==
  [][(event'.type = "BlockUpdate" /\ players[event'.ws].inRoom)
       => LET bt == event'.blockType
              y == event'.y
              valid == /\ JsGeq(bt, 0) /\ bt.k # "nan" /\ ~JsGreater(bt, 15)
                       /\ JsGeq(y, 0) /\ JsLess(y, 256)
              message == [type |-> "BlockChanged", x |-> event'.x, y |-> y,
                          z |-> event'.z, blockType |-> bt,
                          playerId |-> players[event'.ws].playerId]
          IN  IF valid
              THEN /\ worldManager'
                        = WorldManager_setBlock(worldManager, event'.x, y, event'.z, bt).world
                   /\ \A i \in Sockets :
                        players'[i].inbox =
                          IF players[i].inRoom /\ players[i].readyState = "OPEN"
                          THEN Append(players[i].inbox, message)
                          ELSE players[i].inbox
              ELSE /\ worldManager' = worldManager
                   /\ players' = players
    ]_vars

(***************************************************************************)
(* Properties of ChunkManager.update and ChunkManager.setBlock (Spec).     *)
(***************************************************************************)
\* C17: when update(playerX, playerZ) returns, the loaded keys are exactly the
\* keys (pcx + dx, cy, pcz + dz) with |dx|, |dz| <= RENDER_DISTANCE and
\* 0 <= cy < VERTICAL_CHUNKS around the player's chunk, and no mesh of an
\* entry that was removed is left in the scene.
C17_LoadedIsNeeded ==
  [][event'.type = "update"
       => LET pcx == playerX' \div CHUNK_SIZE
              pcz == playerZ' \div CHUNK_SIZE
              needed == {chunkKey(pcx + dx, cy, pcz + dz) :
                           dx \in (-RENDER_DISTANCE)..RENDER_DISTANCE,
                           dz \in (-RENDER_DISTANCE)..RENDER_DISTANCE,
                           cy \in 0..(VERTICAL_CHUNKS - 1)}
          IN  /\ DOMAIN chunks' = needed
              /\ \A k \in (DOMAIN chunks) \ needed :
                   EntryMeshes(chunks[k]) \cap scene' = {}
              /\ \A m \in scene' : m.key \in needed
    ]_vars

\* C17, its case: an update that moved the player to another chunk and
\* removed entries that had meshes in the scene.
C17_Witness ==
  /\ event.type = "update"
  /\ event.detached # {}
  /\ \A k \in DOMAIN chunks : k[1] = playerX \div CHUNK_SIZE

\* The chunks an edit at local <<lx, ly, lz>> of chunk (cx, cy, cz) touches:
\* the chunk and the face neighbors whose shared face the cell lies on.
EditedAndFaceNeighbors(c) ==
  {chunkKey(c.cx, c.cy, c.cz)}
    \cup (IF c.lx = 0 THEN {chunkKey(c.cx - 1, c.cy, c.cz)} ELSE {})
    \cup (IF c.lx = 31 THEN {chunkKey(c.cx + 1, c.cy, c.cz)} ELSE {})
    \cup (IF c.ly = 0 THEN {chunkKey(c.cx, c.cy - 1, c.cz)} ELSE {})
    \cup (IF c.ly = 31 THEN {chunkKey(c.cx, c.cy + 1, c.cz)} ELSE {})
    \cup (IF c.lz = 0 THEN {chunkKey(c.cx, c.cy, c.cz - 1)} ELSE {})
    \cup (IF c.lz = 31 THEN {chunkKey(c.cx, c.cy, c.cz + 1)} ELSE {})

Transparent(type) == type \in {Air, Water, Leaves, Glass, Flower}

\* array[index] of a block grid that was filled with one block type and had
\* blocks placed in it; outside the array the read is undefined (-1).
ReadAt(grid, index) ==
  IF index >= 0 /\ index < BLOCKS_PER_CHUNK
  THEN LET cell == CellOf(index)
       IN  IF cell \in DOMAIN grid.ov THEN grid.ov[cell] ELSE grid.fill
  ELSE -1

\* isSolid: BLOCK_PROPERTIES[type]?.solid ?? false (false for an undefined read)
isSolid(blockType) == blockType \in (1..15) \ {Water, Flower}

\* getBlock, lines 27-56, up to its read: the array the read goes to and the
\* coordinates that are handed to blockIndex, or NULL when the function
\* returns Air without reading.
getBlockTarget(neighbors, x, y, z) ==
  IF /\ x >= 0 /\ x < CHUNK_SIZE /\ y >= 0 /\ y < CHUNK_HEIGHT
     /\ z >= 0 /\ z < CHUNK_SIZE
  THEN [array |-> "data", x |-> x, y |-> y, z |-> z]
  ELSE IF x >= CHUNK_SIZE /\ neighbors.px # NULL
  THEN [array |-> "px", x |-> x - CHUNK_SIZE, y |-> y, z |-> z]
  ELSE IF x < 0 /\ neighbors.nx # NULL
  THEN [array |-> "nx", x |-> x + CHUNK_SIZE, y |-> y, z |-> z]
  ELSE IF y >= CHUNK_HEIGHT /\ neighbors.py # NULL
  THEN [array |-> "py", x |-> x, y |-> y - CHUNK_HEIGHT, z |-> z]
  ELSE IF y < 0 /\ neighbors.ny # NULL
  THEN [array |-> "ny", x |-> x, y |-> y + CHUNK_HEIGHT, z |-> z]
  ELSE IF z >= CHUNK_SIZE /\ neighbors.pz # NULL
  THEN [array |-> "pz", x |-> x, y |-> y, z |-> z - CHUNK_SIZE]
  ELSE IF z < 0 /\ neighbors.nz # NULL
  THEN [array |-> "nz", x |-> x, y |-> y, z |-> z + CHUNK_SIZE]
  ELSE NULL

\* getBlock, lines 27-56
getBlock(data, neighbors, x, y, z) ==
  IF /\ x >= 0 /\ x < CHUNK_SIZE /\ y >= 0 /\ y < CHUNK_HEIGHT
     /\ z >= 0 /\ z < CHUNK_SIZE
  THEN ReadAt(data, blockIndex(x, y, z))
  ELSE IF x >= CHUNK_SIZE /\ neighbors.px # NULL
  THEN ReadAt(neighbors.px, blockIndex(x - CHUNK_SIZE, y, z))
  ELSE IF x < 0 /\ neighbors.nx # NULL
  THEN ReadAt(neighbors.nx, blockIndex(x + CHUNK_SIZE, y, z))
  ELSE IF y >= CHUNK_HEIGHT /\ neighbors.py # NULL
  THEN ReadAt(neighbors.py, blockIndex(x, y - CHUNK_HEIGHT, z))
  ELSE IF y < 0 /\ neighbors.ny # NULL
  THEN ReadAt(neighbors.ny, blockIndex(x, y + CHUNK_HEIGHT, z))
  ELSE IF z >= CHUNK_SIZE /\ neighbors.pz # NULL
  THEN ReadAt(neighbors.pz, blockIndex(x, y, z - CHUNK_SIZE))
  ELSE IF z < 0 /\ neighbors.nz # NULL
  THEN ReadAt(neighbors.nz, blockIndex(x, y, z + CHUNK_SIZE))
  ELSE Air

\* (an ambient-occlusion level that only counts the occluded neighbors)
vertexAOCounting(side1, side2, corner) ==
  3 - ((IF side1 THEN 1 ELSE 0) + (IF side2 THEN 1 ELSE 0) + (IF corner THEN 1 ELSE 0))

\* vertexAO, lines 71-74
vertexAO(side1, side2, corner) ==
  IF side1 /\ side2 THEN 0
  ELSE 3 - ((IF side1 THEN 1 ELSE 0) + (IF side2 THEN 1 ELSE 0) + (IF corner THEN 1 ELSE 0))

\* AO_CURVE, in tenths: the brightness of an ambient-occlusion level 0..3
AO_CURVE == <<4, 6, 8, 10>>

\* FACE_DEFS: the normal axis d, the swept axes u and v (1 = x, 2 = y, 3 = z)
\* and the direction of the faces +X, -X, +Y, -Y, +Z, -Z.
FACE_DEFS ==
  <<[d |-> 1, u |-> 3, v |-> 2, sign |-> 1], [d |-> 1, u |-> 3, v |-> 2, sign |-> -1],
    [d |-> 2, u |-> 1, v |-> 3, sign |-> 1], [d |-> 2, u |-> 1, v |-> 3, sign |-> -1],
    [d |-> 3, u |-> 1, v |-> 2, sign |-> 1], [d |-> 3, u |-> 1, v |-> 2, sign |-> -1]>>

AXIS_SIZE == <<CHUNK_SIZE, CHUNK_HEIGHT, CHUNK_SIZE>>

\* (a face test that shows every face against a transparent block)
shouldShowFaceTransparent(blockType, neighborType) ==
  neighborType = Air \/ Transparent(neighborType)

\* shouldShowFace, lines 112-117
shouldShowFace(blockType, neighborType) ==
  IF neighborType = Air THEN TRUE
  ELSE IF Transparent(neighborType) /\ neighborType # blockType THEN TRUE
  ELSE FALSE

\* The block next to pos across the face.
FaceNeighbor(data, neighbors, face, pos) ==
  LET nPos == [pos EXCEPT ![face.d] = @ + face.sign]
  IN  getBlock(data, neighbors, nPos[1], nPos[2], nPos[3])

\* meshChunk, lines 146-174: the mask entry of the block at pos for the face.
MaskAt(data, neighbors, face, pos) ==
  LET blockType == ReadAt(data, blockIndex(pos[1], pos[2], pos[3]))
  IN  IF blockType = Air THEN 0
      ELSE IF shouldShowFace(blockType, FaceNeighbor(data, neighbors, face, pos))
           THEN blockType
           ELSE 0

\* pos[face.d] = d; pos[face.u] = u; pos[face.v] = v
PosOf(face, d, u, v) ==
  [i \in 1..3 |-> IF i = face.d THEN d ELSE IF i = face.u THEN u ELSE v]

\* The mask of slice d of a face: mask[u + v * uSize].
SliceMask(data, neighbors, face, d) ==
  LET uSize == AXIS_SIZE[face.u]
      vSize == AXIS_SIZE[face.v]
  IN  [idx \in 0..(uSize * vSize - 1) |->
         MaskAt(data, neighbors, face, PosOf(face, d, idx % uSize, idx \div uSize))]

(***************************************************************************)
(* The greedy merge of one mask, lines 176-211.  visited is the set of the *)
(* mask indices whose visited byte is 1; a quad is the rectangle           *)
(* [u, u + w) x [v, v + h) and the block type it was started from.         *)
(***************************************************************************)
\* (a width that is never extended: one quad per unit face)
QuadWidthOne(mask, visited, uSize, u, v, blockType) == 1

\* lines 188-191: the first w at which the while loop stops
QuadWidth(mask, visited, uSize, u, v, blockType) ==
  LET stops == {w \in 1..(uSize - u) :
                  \/ u + w >= uSize
                  \/ mask[(u + w) + v * uSize] # blockType
                  \/ ((u + w) + v * uSize) \in visited}
  IN  CHOOSE w \in stops : \A x \in stops : w <= x

\* (a height extended over every row that starts with the block type)
QuadHeightFirstColumn(mask, visited, uSize, vSize, u, v, w, blockType) ==
  LET stops == {h \in 1..(vSize - v) :
                  \/ v + h >= vSize
                  \/ mask[u + (v + h) * uSize] # blockType}
  IN  CHOOSE h \in stops : \A x \in stops : h <= x

\* lines 194-204: the first h at which the while loop stops
QuadHeight(mask, visited, uSize, vSize, u, v, w, blockType) ==
  LET stops == {h \in 1..(vSize - v) :
                  \/ v + h >= vSize
                  \/ \E k \in 0..(w - 1) :
                       \/ mask[(u + k) + (v + h) * uSize] # blockType
                       \/ ((u + k) + (v + h) * uSize) \in visited}
  IN  CHOOSE h \in stops : \A x \in stops : h <= x

\* lines 179-211, from mask index idx on: the quads in the order they are emitted
RECURSIVE MergeFrom(_, _, _, _, _, _)
MergeFrom(mask, uSize, vSize, idx, visited, quads) ==
  LET last == uSize * vSize - 1
      Starts(i) == i \notin visited /\ mask[i] # 0
  IN  IF ~(\E i \in idx..last : Starts(i)) THEN quads
      ELSE LET i0 == CHOOSE i \in idx..last : Starts(i) /\ \A j \in idx..(i - 1) : ~Starts(j)
               u == i0 % uSize
               v == i0 \div uSize
               blockType == mask[i0]
               w == QuadWidth(mask, visited, uSize, u, v, blockType)
               h == QuadHeight(mask, visited, uSize, vSize, u, v, w, blockType)
               cells == {(u + du) + (v + dv) * uSize : du \in 0..(w - 1), dv \in 0..(h - 1)}
           IN  MergeFrom(mask, uSize, vSize, i0 + 1, visited \cup cells,
                         Append(quads, [u |-> u, v |-> v, w |-> w, h |-> h,
                                        blockType |-> blockType]))

GreedyMerge(mask, uSize, vSize) == MergeFrom(mask, uSize, vSize, 0, {}, <<>>)

(***************************************************************************)
(* Ambient occlusion, lines 236-299 (ChunkMesher.ts) and 172-201           *)
(* (ChunkMeshWorker.ts).  The two files differ in one expression, the      *)
(* coordinate of the three samples along the normal axis: d in meshChunk,  *)
(* d + (face.sign > 0 ? 0 : -1) + face.sign in meshChunkData.              *)
(***************************************************************************)
cornerUV(q) ==
  <<<<q.u, q.v>>, <<q.u + q.w, q.v>>, <<q.u + q.w, q.v + q.h>>, <<q.u, q.v + q.h>>>>

cornerOffsets == <<<<-1, -1>>, <<0, -1>>, <<0, 0>>, <<-1, 0>>>>

SampleLayer(inWorker, face, d) ==
  IF inWorker THEN d + (IF face.sign > 0 THEN 0 ELSE -1) + face.sign ELSE d

\* s1Pos, s2Pos and cPos of corner c (1..4) of the quad q
SamplePositions(face, layer, q, c) ==
  LET cu == cornerUV(q)[c][1]
      cv == cornerUV(q)[c][2]
      ou == cornerOffsets[c][1]
      ov == cornerOffsets[c][2]
  IN  <<PosOf(face, layer, cu + ou, cv), PosOf(face, layer, cu, cv + ov),
        PosOf(face, layer, cu + ou, cv + ov)>>

\* ao[c]
CornerAO(data, neighbors, face, layer, q, c) ==
  LET p == SamplePositions(face, layer, q, c)
      Solid(pos) == isSolid(getBlock(data, neighbors, pos[1], pos[2], pos[3]))
  IN  vertexAO(Solid(p[1]), Solid(p[2]), Solid(p[3]))

\* The quad as it is pushed to the buffers: its place (face, d, u, v, w, h give
\* the four positions and the normal), its block type (the color), the four
\* ambient-occlusion levels (the vertex colors are the color times
\* AO_CURVE[ao]) and which diagonal its two triangles use.
EmitQuad(data, neighbors, inWorker, q) ==
  LET face == FACE_DEFS[q.face]
      ao == [c \in 1..4 |->
               CornerAO(data, neighbors, face, SampleLayer(inWorker, face, q.d), q, c)]
  IN  [face |-> q.face, d |-> q.d, u |-> q.u, v |-> q.v, w |-> q.w, h |-> q.h,
       blockType |-> q.blockType, ao |-> ao, flipped |-> ao[1] + ao[3] > ao[2] + ao[4]]

\* The quads the greedy merge finds in every slice of every face, lines
\* 140-211, each with its face and slice.
MergedQuads(data, neighbors) ==
  UNION {LET face == FACE_DEFS[f]
             merged == GreedyMerge(SliceMask(data, neighbors, face, d),
                                   AXIS_SIZE[face.u], AXIS_SIZE[face.v])
         IN  {[face |-> f, d |-> d, u |-> merged[i].u, v |-> merged[i].v,
               w |-> merged[i].w, h |-> merged[i].h, blockType |-> merged[i].blockType] :
                i \in 1..Len(merged)} :
           f \in DOMAIN FACE_DEFS, d \in 0..(CHUNK_SIZE - 1)}

\* Every quad emitted, lines 213-353.
EmittedQuads(data, neighbors, inWorker, merged) ==
  {EmitQuad(data, neighbors, inWorker, q) : q \in merged}

\* Quad a is emitted before quad b: faces in the order of FACE_DEFS, slices by
\* d, and the quads of a slice by the mask index they start at.
EmittedBefore(a, b) ==
  LET ka == <<a.face, a.d, a.v, a.u>>
      kb == <<b.face, b.d, b.v, b.u>>
  IN  \E i \in 1..4 : ka[i] < kb[i] /\ \A j \in 1..(i - 1) : ka[j] = kb[j]

\* The quads in the order they are emitted.
QuadsInOrder(emitted) ==
  [k \in 1..Cardinality(emitted) |->
     CHOOSE q \in emitted : Cardinality({p \in emitted : EmittedBefore(p, q)}) = k - 1]

IsWaterQuad(q) == q.blockType = Water
IsOpaqueQuad(q) == q.blockType # Water

\* The value returned: null when no vertex was pushed, else the opaque and the
\* water buffers.
MeshData(quads) ==
  IF quads = <<>> THEN NULL
  ELSE [opaque |-> SelectSeq(quads, IsOpaqueQuad), water |-> SelectSeq(quads, IsWaterQuad)]

\* The mesh of a chunk whose merged quads are given.
MeshOf(chunkData, neighbors, inWorker, merged) ==
  MeshData(QuadsInOrder(EmittedQuads(chunkData, neighbors, inWorker, merged)))

\* ChunkMesher.ts meshChunk(chunkData, neighbors, cx, cy, cz), lines 119-371
ChunkMesher_meshChunk(chunkData, neighbors) ==
  MeshOf(chunkData, neighbors, FALSE, MergedQuads(chunkData, neighbors))

\* ChunkMeshWorker.ts meshChunkData(chunkData, neighbors), lines 80-252
meshChunkData(chunkData, neighbors) ==
  MeshOf(chunkData, neighbors, TRUE, MergedQuads(chunkData, neighbors))

(***************************************************************************)
(* The mesher on its own (SpecMesh): a chunk grid and six neighbor grids,  *)
(* each filled with one block type, some neighbors absent, blocks placed   *)
(* in the chunk, and meshChunk called on them.                             *)
(***************************************************************************)
MaxPlaced == 1

FilledGrid(type) == [fill |-> type, ov |-> NoOverlay]
FillTypes == {Water, Stone}
NeighborFills == {NULL, FilledGrid(Air), FilledGrid(Water), FilledGrid(Stone)}
PlacedCells == {<<5, 5, 5>>, <<0, 5, 5>>, <<31, 31, 31>>}
PlacedTypes == {Air, Water, Stone, Leaves}
DroppedNeighbors == {"nx", "py"}
MeshCells == {<<5, 5, 5>>, <<4, 5, 5>>, <<0, 5, 5>>, <<31, 31, 31>>, <<7, 0, 9>>}

InitMesh ==
  /\ \E fill \in FillTypes, around \in NeighborFills :
       meshIn = [data |-> FilledGrid(fill), neighbors |-> [n \in NeighborNames |-> around]]
  /\ worldManager = NULL
  /\ file = NULL
  /\ players = <<>>
  /\ heap = [r \in {} |-> NULL]
  /\ engine = NULL
  /\ terrainGenerator = NULL
  /\ chunks = [k \in {} |-> NULL]
  /\ scene = {}
  /\ playerX = 0
  /\ playerZ = 0
  /\ workers = <<>>
  /\ queue = <<>>
  /\ nextId = 0
  /\ pendingResolves = {}
  /\ promise = [id \in {} |-> NULL]
  /\ awaiting = [id \in {} |-> NULL]
  /\ room = NULL
  /\ net = <<>>
  /\ gens = <<>>
  /\ out = <<>>
  /\ event = [type |-> "init"]
  /\ handed = <<>>
  /\ late = FALSE
  /\ hung = {}
  /\ updates = 0
  /\ edits = 0
  /\ errors = 0

meshFrame == <<heap, engine, terrainGenerator, chunks, scene, playerX, playerZ, workers,
               queue, nextId, pendingResolves, promise, awaiting, room, net, gens, out,
               handed, late, hung, updates, errors, worldManager, file, players>>

\* chunkData[blockIndex(x, y, z)] = type, before the chunk is meshed
PlaceBlock(cell, type) ==
  /\ edits < MaxPlaced
  /\ meshIn' = [meshIn EXCEPT !.data = WriteByte(@, cell, type)]
  /\ edits' = edits + 1
  /\ event' = [type |-> "place"]
  /\ UNCHANGED meshFrame

\* The neighbor chunk on side n is not loaded.
DropNeighbor(n) ==
  /\ \A m \in NeighborNames : meshIn.neighbors[m] # NULL
  /\ meshIn' = [meshIn EXCEPT !.neighbors[n] = NULL]
  /\ event' = [type |-> "drop"]
  /\ UNCHANGED <<edits, meshFrame>>

\* meshChunk(chunkData, neighbors, cx, cy, cz) and the worker's
\* meshChunkData(chunkData, neighbors), called on the same grids as they were
\* filled (the two share the mask and the merge, which are computed once);
\* the blocks placed afterwards are looked at mask entry by mask entry.
MeshChunk ==
  /\ edits = 0
  /\ event.type # "meshChunk"
  /\ LET merged == MergedQuads(meshIn.data, meshIn.neighbors)
     IN  event' = [type |-> "meshChunk",
                   result |-> MeshOf(meshIn.data, meshIn.neighbors, FALSE, merged),
                   worker |-> MeshOf(meshIn.data, meshIn.neighbors, TRUE, merged)]
  /\ UNCHANGED <<meshIn, edits, meshFrame>>

NextMesh ==
  \/ \E cell \in PlacedCells, type \in PlacedTypes : PlaceBlock(cell, type)
  \/ \E n \in DroppedNeighbors : DropNeighbor(n)
  \/ MeshChunk

SpecMesh == InitMesh /\ [][NextMesh]_vars

\* Water at pos with water on all six sides, in the chunk or in a neighbor grid.
Submerged(data, neighbors, pos) ==
  /\ ReadAt(data, blockIndex(pos[1], pos[2], pos[3])) = Water
  /\ \A f \in DOMAIN FACE_DEFS :
       LET nPos == [pos EXCEPT ![FACE_DEFS[f].d] = @ + FACE_DEFS[f].sign]
           inside == \A i \in 1..3 : nPos[i] >= 0 /\ nPos[i] < CHUNK_SIZE
           side == CASE nPos[1] >= CHUNK_SIZE -> "px" [] nPos[1] < 0 -> "nx"
                     [] nPos[2] >= CHUNK_HEIGHT -> "py" [] nPos[2] < 0 -> "ny"
                     [] nPos[3] >= CHUNK_SIZE -> "pz" [] OTHER -> "nz"
           wrapped == [i \in 1..3 |-> nPos[i] % CHUNK_SIZE]
       IN  IF inside THEN Byte(data, nPos) = Water
           ELSE neighbors[side] # NULL /\ Byte(neighbors[side], wrapped) = Water

\* The grid holds nothing but water.
AllWater(grid) == grid # NULL /\ grid.fill = Water /\ grid.ov = NoOverlay

\* C20: a transparent block shows no face towards a block of its own type; a
\* water block with water on all six sides, in the chunk or in the supplied
\* neighbor grids, has 0 in the mask of every face; and meshChunk on a chunk
\* of water between six neighbor grids of water returns null.
C20_NoFaceBetweenSameTransparent ==
  /\ \A pos \in MeshCells, f \in DOMAIN FACE_DEFS :
       LET blockType == ReadAt(meshIn.data, blockIndex(pos[1], pos[2], pos[3]))
       IN  (/\ blockType # Air
            /\ Transparent(blockType)
            /\ FaceNeighbor(meshIn.data, meshIn.neighbors, FACE_DEFS[f], pos) = blockType)
           => MaskAt(meshIn.data, meshIn.neighbors, FACE_DEFS[f], pos) = 0
  /\ \A pos \in MeshCells :
       Submerged(meshIn.data, meshIn.neighbors, pos)
       => \A f \in DOMAIN FACE_DEFS :
            MaskAt(meshIn.data, meshIn.neighbors, FACE_DEFS[f], pos) = 0
  /\ (/\ event.type = "meshChunk"
      /\ AllWater(meshIn.data)
      /\ \A n \in NeighborNames : AllWater(meshIn.neighbors[n]))
       => event.result = NULL

\* C20, its case: meshChunk was called on a chunk of water between six grids
\* of water, where the corner block (31, 31, 31) has three of its neighbors in
\* the neighbor grids.
C20_Witness ==
  /\ event.type = "meshChunk"
  /\ event.result = NULL
  /\ AllWater(meshIn.data)
  /\ \A n \in NeighborNames : AllWater(meshIn.neighbors[n])
  /\ Submerged(meshIn.data, meshIn.neighbors, <<31, 31, 31>>)

\* The grid is filled with one block type and nothing else.
Uniform(grid, type) == grid # NULL /\ grid.fill = type /\ grid.ov = NoOverlay

\* The quads of a mesh result, opaque and water.
QuadsOf(result) ==
  IF result = NULL THEN {}
  ELSE {result.opaque[i] : i \in 1..Len(result.opaque)}
         \cup {result.water[i] : i \in 1..Len(result.water)}

\* C21: meshChunk on a chunk filled with one opaque block type, each of whose
\* six neighbors is absent or all air, returns exactly 6 opaque quads, one
\* per face direction, each on the outer slice of its direction and covering
\* the whole 32 x 32 side, and no water quad.
C21_FullChunkIsSixQuads ==
  (/\ event.type = "meshChunk"
   /\ \E type \in FillTypes : ~Transparent(type) /\ Uniform(meshIn.data, type)
   /\ \A n \in NeighborNames :
        meshIn.neighbors[n] = NULL \/ Uniform(meshIn.neighbors[n], Air))
  => /\ event.result # NULL
     /\ event.result.water = <<>>
     /\ Len(event.result.opaque) = 6
     /\ \A f \in DOMAIN FACE_DEFS :
          \E i \in 1..6 :
            LET q == event.result.opaque[i]
            IN  /\ q.face = f
                /\ q.d = (IF FACE_DEFS[f].sign > 0 THEN CHUNK_SIZE - 1 ELSE 0)
                /\ q.u = 0 /\ q.v = 0 /\ q.w = CHUNK_SIZE /\ q.h = CHUNK_SIZE
                /\ q.blockType = meshIn.data.fill

\* C21, its case: a chunk of stone, one neighbor absent and five all air, was
\* meshed into six quads.
C21_Witness ==
  /\ event.type = "meshChunk"
  /\ Uniform(meshIn.data, Stone)
  /\ meshIn.neighbors.nx = NULL
  /\ \A n \in NeighborNames \ {"nx"} : Uniform(meshIn.neighbors[n], Air)
  /\ event.result # NULL
  /\ Len(event.result.opaque) = 6

\* The three samples of corner c of an emitted quad, as meshChunk takes them:
\* is the block at s1Pos, s2Pos, cPos solid?
SamplesSolid(q, c) ==
  LET p == SamplePositions(FACE_DEFS[q.face], SampleLayer(FALSE, FACE_DEFS[q.face], q.d), q, c)
  IN  [i \in 1..3 |-> isSolid(getBlock(meshIn.data, meshIn.neighbors,
                                       p[i][1], p[i][2], p[i][3]))]

Occluded(side1, side2, corner) ==
  Cardinality({i \in 1..3 : <<side1, side2, corner>>[i]})

\* C22: vertexAO is 0 when both sides are occluded, whatever the corner, and
\* otherwise 3 minus the number of occluded inputs; it is 3, the level of
\* brightness 1.0 in AO_CURVE, exactly when none of the three is occluded; and
\* every corner of every quad meshChunk emits carries the level of its three
\* samples.
C22_VertexAOLevels ==
  /\ \A side1 \in BOOLEAN, side2 \in BOOLEAN, corner \in BOOLEAN :
       /\ (side1 /\ side2) => vertexAO(side1, side2, corner) = 0
       /\ ~(side1 /\ side2)
            => vertexAO(side1, side2, corner) = 3 - Occluded(side1, side2, corner)
       /\ vertexAO(side1, side2, corner) = 3 <=> Occluded(side1, side2, corner) = 0
  /\ AO_CURVE[3 + 1] = 10
  /\ event.type = "meshChunk"
       => \A q \in QuadsOf(event.result), c \in 1..4 :
            LET s == SamplesSolid(q, c)
            IN  q.ao[c] = (IF s[1] /\ s[2] THEN 0 ELSE 3 - Occluded(s[1], s[2], s[3]))

\* C22, its case: meshChunk emitted a quad with a corner whose two sides are
\* both occluded (level 0) and a quad with a corner that nothing occludes
\* (level 3).
C22_Witness ==
  /\ event.type = "meshChunk"
  /\ \E q \in QuadsOf(event.result), c \in 1..4 :
       SamplesSolid(q, c)[1] /\ SamplesSolid(q, c)[2] /\ q.ao[c] = 0
  /\ \E q \in QuadsOf(event.result), c \in 1..4 :
       Occluded(SamplesSolid(q, c)[1], SamplesSolid(q, c)[2], SamplesSolid(q, c)[3]) = 0
       /\ q.ao[c] = 3

\* The coordinates are local coordinates of a chunk.
InChunk(x, y, z) ==
  /\ x >= 0 /\ x < CHUNK_SIZE /\ y >= 0 /\ y < CHUNK_HEIGHT /\ z >= 0 /\ z < CHUNK_SIZE

\* C27: every blockIndex call of getBlock made while a chunk is meshed, for
\* the neighbor of a block across a face and for the ambient-occlusion
\* samples of the emitted quads, is given coordinates within [0, 32).
C27_BlockIndexInRange ==
  /\ \A pos \in MeshCells, f \in DOMAIN FACE_DEFS :
       LET nPos == [pos EXCEPT ![FACE_DEFS[f].d] = @ + FACE_DEFS[f].sign]
           t == getBlockTarget(meshIn.neighbors, nPos[1], nPos[2], nPos[3])
       IN  t # NULL => InChunk(t.x, t.y, t.z)
  /\ event.type = "meshChunk"
       => \A q \in QuadsOf(event.result), c \in 1..4, i \in 1..3 :
            LET p == SamplePositions(FACE_DEFS[q.face],
                                     SampleLayer(FALSE, FACE_DEFS[q.face], q.d), q, c)[i]
                t == getBlockTarget(meshIn.neighbors, p[1], p[2], p[3])
            IN  t # NULL => InChunk(t.x, t.y, t.z)

\* C28: meshChunk and the worker's meshChunkData return the same result for
\* the same chunk grid and neighbor grids.
C28_SyncAndWorkerMeshAgree ==
  event.type = "meshChunk" => event.result = event.worker

(***************************************************************************)
(* The greedy merge on its own (SpecMerge): a mask of MaskWidth x          *)
(* MaskHeight entries, each 0 (no face) or a block type, merged as one     *)
(* slice of meshChunk is.                                                  *)
(***************************************************************************)
MaskWidth == 3
MaskHeight == 3

MaskEntries == {0, Stone, Water}

InitMerge ==
  /\ \E mask \in [0..(MaskWidth * MaskHeight - 1) -> MaskEntries] :
       meshIn = [mask |-> mask, uSize |-> MaskWidth, vSize |-> MaskHeight]
  /\ worldManager = NULL
  /\ file = NULL
  /\ players = <<>>
  /\ heap = [r \in {} |-> NULL]
  /\ engine = NULL
  /\ terrainGenerator = NULL
  /\ chunks = [k \in {} |-> NULL]
  /\ scene = {}
  /\ playerX = 0
  /\ playerZ = 0
  /\ workers = <<>>
  /\ queue = <<>>
  /\ nextId = 0
  /\ pendingResolves = {}
  /\ promise = [id \in {} |-> NULL]
  /\ awaiting = [id \in {} |-> NULL]
  /\ room = NULL
  /\ net = <<>>
  /\ gens = <<>>
  /\ out = <<>>
  /\ event = [type |-> "init"]
  /\ handed = <<>>
  /\ late = FALSE
  /\ hung = {}
  /\ updates = 0
  /\ edits = 0
  /\ errors = 0

\* The greedy merge of the slice, lines 176-211.
MergeSlice ==
  /\ event.type = "init"
  /\ event' = [type |-> "merge",
               quads |-> GreedyMerge(meshIn.mask, meshIn.uSize, meshIn.vSize)]
  /\ UNCHANGED <<meshIn, edits, meshFrame>>

NextMerge == MergeSlice

SpecMerge == InitMerge /\ [][NextMerge]_vars

\* The mask indices the quad covers.
QuadCells(q, uSize) ==
  {(q.u + du) + (q.v + dv) * uSize : du \in 0..(q.w - 1), dv \in 0..(q.h - 1)}

\* C29: the quads of a slice tile its mask: every quad lies within the slice,
\* every mask cell that holds a block type is covered by exactly one quad,
\* and every cell a quad covers holds the quad's block type (so no quad
\* covers a cell whose face is hidden, and no quad mixes block types).
C29_QuadsTileTheMask ==
  event.type = "merge"
  => LET quads == event.quads
         last == meshIn.uSize * meshIn.vSize - 1
     IN  /\ \A i \in 1..Len(quads) :
              /\ quads[i].w >= 1 /\ quads[i].h >= 1
              /\ quads[i].u >= 0 /\ quads[i].u + quads[i].w <= meshIn.uSize
              /\ quads[i].v >= 0 /\ quads[i].v + quads[i].h <= meshIn.vSize
              /\ quads[i].blockType # 0
              /\ \A idx \in QuadCells(quads[i], meshIn.uSize) :
                   meshIn.mask[idx] = quads[i].blockType
         /\ \A idx \in 0..last :
              meshIn.mask[idx] # 0
              => Cardinality({i \in 1..Len(quads) :
                                idx \in QuadCells(quads[i], meshIn.uSize)}) = 1

\* C29, its case: a mask with hidden faces, stone and water was merged, one
\* quad is at least 2 x 2 and another one lies next to a cell of another
\* block type.
C29_Witness ==
  /\ event.type = "merge"
  /\ \A e \in MaskEntries : \E idx \in DOMAIN meshIn.mask : meshIn.mask[idx] = e
  /\ \E i \in 1..Len(event.quads) : event.quads[i].w >= 2 /\ event.quads[i].h >= 2
  /\ Len(event.quads) >= 3

(***************************************************************************)
(* The generated world, read across chunks: the byte at a world position   *)
(* is the byte generateChunk gives the chunk that contains it.             *)
(***************************************************************************)
WorldBlock(g, wx, wy, wz) ==
  LET c == worldToChunk(wx, wy, wz)
  IN  Byte(generateChunk(g, c.cx, c.cy, c.cz).data, <<c.lx, c.ly, c.lz>>)

\* The array the last generateChunk call returned, and its generator.
LastOut == out[Len(out)]
LastGen == gens[LastOut.inst]

ChunkColumns == (0..(CHUNK_SIZE - 1)) \X (0..(CHUNK_SIZE - 1))

\* The block of pass 1 at a world position of a column of surface height H,
\* case by case: the terrain layer, then the cave, then the ore.
LayerBlock(H, wy) ==
  CASE wy = H /\ H <= 62 -> Sand
    [] wy = H /\ H > 62 -> Grass
    [] H - 3 <= wy /\ wy < H -> Dirt
    [] wy < H - 3 -> Stone
    [] H < wy /\ wy <= 60 -> Water
    [] OTHER -> Air

Carved(g, wx, wy, wz) ==
  1 < wy /\ wy < 50 /\ NoiseValue(g.noise3D, wx * 5, wy * 5, wz * 5) > 600

OreBlock(g, wx, wy, wz) ==
  LET h == blockHash(wx, wy, wz, g.seed)
  IN  IF wy < 20 /\ h < 3 THEN Gold
      ELSE IF wy < 40 /\ h < 8 THEN Iron
      ELSE IF wy < 60 /\ h < 15 THEN Coal
      ELSE Stone

TerrainBlock(g, wx, wy, wz, H) ==
  IF LayerBlock(H, wy) # Stone THEN LayerBlock(H, wy)
  ELSE IF Carved(g, wx, wy, wz) THEN Air
  ELSE OreBlock(g, wx, wy, wz)

\* The columns of the chunk whose pass 1 blocks are compared, and the ones
\* whose bytes in the returned array are.
TerrainColumns == {c \in ChunkColumns : c[2] \in {0, 13}}
ArrayColumns == {<<0, 0>>, <<2, 13>>, <<5, 7>>, <<16, 18>>}

\* C23: in the chunk generateChunk returned, pass 1 gives every block the
\* type of its layer (Sand or Grass at the surface, Dirt for the three blocks
\* below, Stone below that, Water above the surface up to 60, Air elsewhere),
\* carves the caves out of the Stone and then places the ores, Gold before
\* Iron before Coal; and the returned array holds that block wherever it
\* does not hold a Flower, Wood or Leaves.
C23_TerrainLayers ==
  out # <<>>
  => \A c \in TerrainColumns, y \in 0..(CHUNK_HEIGHT - 1) :
       LET wx == LastOut.key[1] * CHUNK_SIZE + c[1]
           wz == LastOut.key[3] * CHUNK_SIZE + c[2]
           wy == LastOut.key[2] * CHUNK_HEIGHT + y
           H == sampleHeight(LastGen.noise2D, wx, wz)
           expected == TerrainBlock(LastGen, wx, wy, wz, H)
           byte == Byte(LastOut.data, <<c[1], y, c[2]>>)
       IN  /\ Pass1Block(LastGen, wx, wy, wz, H) = expected
           /\ c \in ArrayColumns => (byte \in {Flower, Wood, Leaves} \/ byte = expected)

\* C23, its case: the chunk of world y 32..63 was generated, and its compared
\* columns hold water, sand, grass, dirt, stone and air, and a stone block that
\* passes the Coal test and the Iron test at once.
C23_Witness ==
  /\ out # <<>>
  /\ LastOut.key = chunkKey(0, 1, 0)
  /\ \A type \in {Water, Sand, Grass, Dirt, Stone, Air} :
       \E c \in TerrainColumns, y \in 0..(CHUNK_HEIGHT - 1) :
         Pass1Block(LastGen, c[1], CHUNK_HEIGHT + y, c[2],
                    sampleHeight(LastGen.noise2D, c[1], c[2])) = type
  /\ \E c \in TerrainColumns, y \in 0..(CHUNK_HEIGHT - 1) :
       /\ Pass1Block(LastGen, c[1], CHUNK_HEIGHT + y, c[2],
                     sampleHeight(LastGen.noise2D, c[1], c[2])) = Iron
       /\ blockHash(c[1], CHUNK_HEIGHT + y, c[2], LastGen.seed) < 8
  /\ \E c \in ArrayColumns, y \in 0..(CHUNK_HEIGHT - 1) :
       Byte(LastOut.data, <<c[1], y, c[2]>>) = Grass

\* The vertical chunk that contains world y.
ChunkOfY(wy) == wy \div CHUNK_HEIGHT

\* Does the generator place a tree on the world column <<wx, wz>>?  (It does
\* so, if at all, in the chunk that contains the column's surface.)
TreeOn(g, wx, wz) ==
  LET c == worldToChunk(wx, sampleHeight(g.noise2D, wx, wz), wz)
  IN  TreeAt(g, c.cx, c.cy, c.cz, c.lx, c.lz)

\* C24: in every column of the chunk column that was generated last, if the
\* surface block is Grass, the surface is above the water level, the flower
\* hash is below 0.02 and the column holds no tree, then the block above
\* the surface is Flower, in whichever vertical chunk it lies.
C24_FlowerAboveGrass ==
  out # <<>>
  => \A c \in ChunkColumns :
       LET wx == LastOut.key[1] * CHUNK_SIZE + c[1]
           wz == LastOut.key[3] * CHUNK_SIZE + c[2]
           H == sampleHeight(LastGen.noise2D, wx, wz)
       IN  (/\ H > WATER_LEVEL
            /\ blockHash(wx, H + 1, wz, LastGen.seed + 7) < 20
            /\ WorldBlock(LastGen, wx, H, wz) = Grass
            /\ ~TreeOn(LastGen, wx, wz))
           => WorldBlock(LastGen, wx, H + 1, wz) = Flower

\* The canopy offsets of a tree: within the radius-2 sphere (threshold 2.5)
\* around the trunk top, from one block below it to two above.
CanopyOffsets ==
  {o \in (-2..2) \X (-1..2) \X (-2..2) :
     4 * (o[1] * o[1] + o[2] * o[2] + o[3] * o[3]) <= 25}

\* C25: for every tree placed in the chunk column that was generated last,
\* the blocks at H + 1 .. H + trunkHeight are Wood and no canopy position is
\* left Air, in whichever vertical chunk they lie.
C25_TreesAreWhole ==
  out # <<>>
  => \A c \in ChunkColumns :
       LET wx == LastOut.key[1] * CHUNK_SIZE + c[1]
           wz == LastOut.key[3] * CHUNK_SIZE + c[2]
           H == sampleHeight(LastGen.noise2D, wx, wz)
           trunkHeight == 4 + (blockHash(wx, 0, wz, LastGen.seed + 42) % 3)
       IN  TreeOn(LastGen, wx, wz)
           => /\ \A t \in 1..trunkHeight : WorldBlock(LastGen, wx, H + t, wz) = Wood
              /\ \A o \in CanopyOffsets :
                   WorldBlock(LastGen, wx + o[1], H + trunkHeight + o[2], wz + o[3]) # Air

\* Job a goes before job b: higher priority, or the same priority and
\* submitted earlier (job ids are given in submission order).
GoesBefore(a, b) ==
  a.priority > b.priority \/ (a.priority = b.priority /\ a.id < b.id)

\* C26: after every pool event (meshChunk, a worker's reply, a worker's
\* error) the queue is empty or every worker is marked busy; and every job
\* the event handed to a worker goes before every job still queued and
\* before every job the same event handed after it.
C26_DispatchPolicy ==
  [][/\ queue' = <<>> \/ \A i \in DOMAIN workers' : workers'[i].busy
     /\ \A k \in (Len(handed) + 1)..Len(handed') :
          /\ \A j \in DOMAIN queue' : GoesBefore(handed'[k], queue'[j])
          /\ \A l \in (k + 1)..Len(handed') : GoesBefore(handed'[k], handed'[l])]_vars

\* C26, its case: a worker's reply handed the job submitted last while a job
\* submitted before it, of lower priority, is still queued behind a busy pool.
C26_Witness ==
  /\ event.type = "reply"
  /\ queue # <<>>
  /\ \A i \in DOMAIN workers : workers[i].busy
  /\ handed # <<>>
  /\ \E j \in DOMAIN queue :
       /\ queue[j].id < handed[Len(handed)].id
       /\ queue[j].priority < handed[Len(handed)].priority


(***************************************************************************)
(* A room and one of its clients (SpecSync).  The server's world is        *)
(* worldManager and the room has two sockets.  SyncClient is the player    *)
(* whose ChunkManager is modelled: it moves (Engine.update) and handles    *)
(* the BlockChanged messages of its inbox in order.  SyncEditor is another *)
(* player, who edits; its client is not modelled, so its inbox keeps every *)
(* BlockChanged message the room has broadcast.  The room's seed is the    *)
(* seed the client generates its terrain from.                             *)
(***************************************************************************)
SyncClient == "client"
SyncEditor == "editor"

SyncEdits ==
  {<<JsInt(0), JsInt(40), JsInt(0), JsInt(Planks)>>,
   <<JsInt(0), JsInt(0), JsInt(0), JsInt(Grass)>>,
   <<JsInt(CHUNK_SIZE), JsInt(40), JsInt(0), JsInt(Planks)>>}

\* ChunkManager.getBlock, lines 238-243.
ChunkManager_getBlock(s, wx, wy, wz) ==
  LET c == worldToChunk(wx, wy, wz)
      key == chunkKey(c.cx, c.cy, c.cz)
  IN  IF key \notin DOMAIN s.chunks THEN Air
      ELSE Byte(s.p.heap[s.chunks[key].data].grid, <<c.lx, c.ly, c.lz>>)

InitSync ==
  /\ worldManager = NewWorldManager(ENGINE_SEED)
  /\ players = [i \in {SyncClient, SyncEditor} |->
                  [playerId |-> i, inRoom |-> TRUE, readyState |-> "OPEN",
                   inbox |-> <<>>]]
  /\ engine = [seed |-> EngineSeed(NULL)]
  /\ terrainGenerator = NewTerrainGenerator(EngineSeed(NULL))
  /\ workers = NewWorkers(MaxCores)
  /\ file = NULL
  /\ meshIn = NULL
  /\ heap = [r \in {} |-> NULL]
  /\ chunks = [k \in {} |-> NULL]
  /\ scene = {}
  /\ playerX = 0
  /\ playerZ = 0
  /\ queue = <<>>
  /\ nextId = 0
  /\ pendingResolves = {}
  /\ promise = [id \in {} |-> NULL]
  /\ awaiting = [id \in {} |-> NULL]
  /\ room = NULL
  /\ net = <<>>
  /\ gens = <<>>
  /\ out = <<>>
  /\ event = [type |-> "init"]
  /\ handed = <<>>
  /\ late = FALSE
  /\ hung = {}
  /\ updates = 0
  /\ edits = 0
  /\ errors = 0

\* NetworkClient.routeMessage and main.ts, the blockChanged handler: the
\* client takes the next BlockChanged message of its socket and calls
\* chunkManager.setBlock(msg.x, msg.y, msg.z, msg.blockType).
BlockChanged ==
  /\ players[SyncClient].inbox # <<>>
  /\ LET msg == Head(players[SyncClient].inbox)
         c == worldToChunk(msg.x.v, msg.y.v, msg.z.v)
         targets == RebuildTargets(chunks, c)
     IN  /\ \E outcomes \in [1..Len(targets) -> {[opaque |-> TRUE, water |-> FALSE]}] :
               Commit(setBlock(Manager, msg.x.v, msg.y.v, msg.z.v, msg.blockType.v,
                               outcomes, SyncRequest(Len(players[SyncClient].inbox))))
         /\ event' = [type |-> "blockChanged", x |-> msg.x.v, y |-> msg.y.v,
                      z |-> msg.z.v, blockType |-> msg.blockType.v]
  /\ players' = [players EXCEPT ![SyncClient].inbox = Tail(@)]
  /\ UNCHANGED <<engine, updates, edits, late, hung, errors, netVars, genVars,
                 worldManager, file, meshIn>>

NextSync ==
  \/ \E x \in PlayerXs, z \in PlayerZs : Update(x, z)
  \/ \E e \in SyncEdits : BlockUpdate(SyncEditor, e[1], e[2], e[3], e[4])
  \/ BlockChanged
  \/ \E i \in 1..MaxCores : WorkerReply(i, [opaque |-> TRUE, water |-> FALSE], FALSE)

SpecSync == InitSync /\ [][NextSync]_vars

\* The BlockChanged messages broadcast in the room so far.
Broadcast == players[SyncEditor].inbox

\* C30 (as claimed): once the client has handled every BlockChanged message
\* sent to it, it reads at every edited position whose chunk it has loaded
\* the block type the server's getBlock returns there, also when it loaded
\* the chunk, or evicted it and loaded it again, after the edit.
C30_EditsConverge ==
  players[SyncClient].inbox = <<>>
    => \A i \in DOMAIN Broadcast :
         LET m == Broadcast[i]
             c == worldToChunk(m.x.v, m.y.v, m.z.v)
         IN  chunkKey(c.cx, c.cy, c.cz) \in DOMAIN chunks
               => JsInt(ChunkManager_getBlock(Manager, m.x.v, m.y.v, m.z.v))
                    = WorldManager_getBlock(worldManager, m.x, m.y, m.z)

====
